---- MODULE Spec2Model ----
(***************************************************************************)
(* A model of the two core subsystems of the UCP Go SDK:                   *)
(*   - validation.CapabilityNegotiator (src/validation/capability.go)      *)
(*   - server.WebhookVerifier          (src/server/webhook.go)             *)
(* and of three of its collaborators:                                      *)
(*   - server.APIKeyMiddleware, server.BearerTokenMiddleware               *)
(*   - internal.RetryableClient        (src/internal/http.go)              *)
(*   - the checkout handlers of examples/business_server/main.go           *)
(* They share no state.  The specifications:                               *)
(*   Spec             one negotiator, calls of Negotiate on any inputs     *)
(*   RepeatSpec       repeated calls of Negotiate, the first one kept      *)
(*   VerifySpec       one verifier, calls of VerifyRequest on any header   *)
(*   ConcurrentSpec   goroutines inside VerifyRequest on one verifier      *)
(*   RepeatVerifySpec repeated calls of VerifyRequest, the first one kept  *)
(*   KeySpec          NewWebhookVerifier on JWKs of every shape            *)
(*   MiddlewareSpec   a request served through an authenticating middleware*)
(*   RetrySpec        RetryableClient.Do, one action per attempt           *)
(*   ShopSpec         requests to the example server's checkout handlers   *)
(* A call is one action, except in ConcurrentSpec, where it is split at    *)
(* its one access to shared memory.  A call of Negotiate that panics       *)
(* leaves no result and ends the run.                                      *)
(***************************************************************************)
EXTENDS Integers, Sequences, FiniteSets, TLC

VARIABLES
    negotiator,   \* the *CapabilityNegotiator: [built, platformCapabilities]
    negCall,      \* the arguments of the last Negotiate call
    negResult,    \* what the last Negotiate call produced (a result or a panic)
    negHistory,   \* the first Negotiate call a caller kept: its inputs and result
    verifier,     \* what NewWebhookVerifier returned: [built, keys, err]
    request,      \* the last request handed to VerifyRequest: its
                  \* X-Detached-JWT header (present, value) and the body
    outcome,      \* the error VerifyRequest returned for it ("nil" for success)
    verHistory,   \* the key mapping as NewWebhookVerifier built it, and the
                  \* first request a caller kept with its outcome
    calls,        \* the VerifyRequest calls of concurrent goroutines: each
                  \* one's position, request, local variables and outcome
    handler,      \* the handler a middleware returned, the request it served,
                  \* and what it did with it
    client,       \* a *RetryableClient and its call of Do: the loop's
                  \* position and variables, and what was returned
    store         \* the example server's checkouts, orders and idCounter

vars == <<negotiator, negCall, negResult, negHistory,
          verifier, request, outcome, verHistory, calls,
          handler, client, store>>
negVars == <<negotiator, negCall, negResult, negHistory>>
verVars == <<verifier, request, outcome, verHistory, calls>>
appVars == <<handler, client, store>>

(***************************************************************************)
(* Strings.  A models.Version is modelled as the sequence of its           *)
(* characters, so that strings.Split, strconv.Atoi and the version regexp  *)
(* are computed, not assumed.                                              *)
(***************************************************************************)
Digits == {"0", "1", "2", "3", "4", "5", "6", "7", "8", "9"}

DigitVal(c) ==
    CASE c = "0" -> 0 [] c = "1" -> 1 [] c = "2" -> 2 [] c = "3" -> 3
      [] c = "4" -> 4 [] c = "5" -> 5 [] c = "6" -> 6 [] c = "7" -> 7
      [] c = "8" -> 8 [] c = "9" -> 9

\* strings.Split(s, sep) for a one-character separator: the substrings between
\* the separators; Split("") is one empty string.
RECURSIVE SplitFrom(_, _, _, _)
SplitFrom(s, sep, i, cur) ==
    IF i > Len(s) THEN <<cur>>
    ELSE IF s[i] = sep THEN <<cur>> \o SplitFrom(s, sep, i + 1, <<>>)
    ELSE SplitFrom(s, sep, i + 1, Append(cur, s[i]))

Split(s, sep) == SplitFrom(s, sep, 1, <<>>)

\* strconv.Atoi with its error dropped (n, _ := strconv.Atoi(p)): the decimal
\* value of a non-empty all-digit string, 0 for anything else.
RECURSIVE DecimalValue(_, _)
DecimalValue(p, acc) ==
    IF p = <<>> THEN acc ELSE DecimalValue(Tail(p), acc * 10 + DigitVal(Head(p)))

Atoi(p) ==
    IF Len(p) > 0 /\ \A i \in 1..Len(p) : p[i] \in Digits
    THEN DecimalValue(p, 0)
    ELSE 0

\* Version.IsValid: VersionPattern ^\d{4}-\d{2}-\d{2}$ matches the string.
IsValidVersion(v) ==
    /\ Len(v) = 10
    /\ \A i \in {1, 2, 3, 4, 6, 7, 9, 10} : v[i] \in Digits
    /\ v[5] = "-"
    /\ v[8] = "-"

(***************************************************************************)
(* Version comparison.  compareVersions indexes parts[0..2] of both splits *)
(* without checking their length: with fewer than three parts on either    *)
(* side, and the earlier parts equal, the index is out of range and the    *)
(* goroutine panics.  A comparison is [panic, val].                        *)
(***************************************************************************)
RECURSIVE CompareParts(_, _, _)
CompareParts(parts1, parts2, i) ==
    IF i > 3 THEN [panic |-> FALSE, val |-> 0]
    ELSE IF i > Len(parts1) \/ i > Len(parts2) THEN [panic |-> TRUE, val |-> 0]
    ELSE LET n1 == Atoi(parts1[i])
             n2 == Atoi(parts2[i])
         IN  IF n1 < n2 THEN [panic |-> FALSE, val |-> -1]
             ELSE IF n1 > n2 THEN [panic |-> FALSE, val |-> 1]
             ELSE CompareParts(parts1, parts2, i + 1)

compareVersions(v1, v2) == CompareParts(Split(v1, "-"), Split(v2, "-"), 1)

\* versionsCompatible without its IsValid guard: only the years are compared.
versionsCompatibleUnguarded(v1, v2) ==
    Split(v1, "-")[1] = Split(v2, "-")[1]

\* versionsCompatible: both valid and the text before the first "-" equal.
versionsCompatible(v1, v2) ==
    IF ~IsValidVersion(v1) \/ ~IsValidVersion(v2) THEN FALSE
    ELSE Split(v1, "-")[1] = Split(v2, "-")[1]

\* negotiateProtocolVersion: v1 if compareVersions(v1, v2) < 0, else v2.
negotiateProtocolVersion(v1, v2) ==
    LET c == compareVersions(v1, v2)
    IN  IF c.panic THEN [panic |-> TRUE, val |-> <<>>]
        ELSE IF c.val < 0 THEN [panic |-> FALSE, val |-> v1]
        ELSE [panic |-> FALSE, val |-> v2]

\* The loop of getMinPlatformVersion over platformCapabilities[1:].
RECURSIVE MinVersionFrom(_, _, _)
MinVersionFrom(caps, i, minVersion) ==
    IF i > Len(caps) THEN [panic |-> FALSE, val |-> minVersion]
    ELSE LET c == compareVersions(caps[i].Version, minVersion)
         IN  IF c.panic THEN [panic |-> TRUE, val |-> <<>>]
             ELSE IF c.val < 0 THEN MinVersionFrom(caps, i + 1, caps[i].Version)
             ELSE MinVersionFrom(caps, i + 1, minVersion)

\* getMinPlatformVersion without its loop: the first capability's version.
getMinPlatformVersionFirst(platformCapabilities) ==
    IF Len(platformCapabilities) = 0 THEN [panic |-> FALSE, val |-> <<>>]
    ELSE [panic |-> FALSE, val |-> platformCapabilities[1].Version]

getMinPlatformVersion(platformCapabilities) ==
    IF Len(platformCapabilities) = 0 THEN [panic |-> FALSE, val |-> <<>>]
    ELSE MinVersionFrom(platformCapabilities, 2, platformCapabilities[1].Version)

(***************************************************************************)
(* CapabilityNegotiator.Negotiate                                          *)
(***************************************************************************)
EmptyMap == [k \in {} |-> k]

\* businessCaps[cap.Name] = cap
MapPut(m, k, v) == [x \in (DOMAIN m) \cup {k} |-> IF x = k THEN v ELSE m[x]]

\* The loop building businessCaps keeping the first entry of a name.
RECURSIVE BusinessCapsFromFirstWins(_, _, _)
BusinessCapsFromFirstWins(capabilities, i, businessCaps) ==
    IF i > Len(capabilities) THEN businessCaps
    ELSE BusinessCapsFromFirstWins(capabilities, i + 1,
             IF capabilities[i].Name \in DOMAIN businessCaps THEN businessCaps
             ELSE MapPut(businessCaps, capabilities[i].Name, capabilities[i]))

\* The loop building businessCaps: a later entry of a name overwrites an earlier.
RECURSIVE BusinessCapsFrom(_, _, _)
BusinessCapsFrom(capabilities, i, businessCaps) ==
    IF i > Len(capabilities) THEN businessCaps
    ELSE BusinessCapsFrom(capabilities, i + 1,
                          MapPut(businessCaps, capabilities[i].Name, capabilities[i]))

BusinessCaps(businessProfile) ==
    BusinessCapsFrom(businessProfile.UCP.Capabilities, 1, EmptyMap)

\* The VersionMismatch appended for an incompatible pair.
NewVersionMismatch(platformCap, businessCap) ==
    [Capability      |-> platformCap.Name,
     PlatformVersion |-> platformCap.Version,
     BusinessVersion |-> businessCap.Version]

\* NegotiatedCap with the comparison turned round: the newer version wins.
NegotiatedCapNewer(platformCap, businessCap) ==
    IF compareVersions(businessCap.Version, platformCap.Version).val > 0
    THEN [platformCap EXCEPT !.Version = businessCap.Version]
    ELSE platformCap

\* "Use the older version": a copy of platformCap whose Version is the business's
\* when that compares lower.  Both versions passed versionsCompatible, so both
\* split into three parts and compareVersions cannot panic here.
NegotiatedCap(platformCap, businessCap) ==
    IF compareVersions(businessCap.Version, platformCap.Version).val < 0
    THEN [platformCap EXCEPT !.Version = businessCap.Version]
    ELSE platformCap

\* CommonStep without the continue: a mismatched platformCap is recorded and
\* then falls through to the common list.
CommonStepNoContinue(acc, platformCap, businessCaps) ==
    IF platformCap.Name \in DOMAIN businessCaps
    THEN LET businessCap == businessCaps[platformCap.Name]
             noted == IF ~versionsCompatible(platformCap.Version, businessCap.Version)
                      THEN [acc EXCEPT !.VersionMismatches =
                                Append(@, NewVersionMismatch(platformCap, businessCap))]
                      ELSE acc
         IN  [noted EXCEPT !.CommonCapabilities = Append(@, platformCap)]
    ELSE acc

\* One iteration of "Find common capabilities" for platformCap.
CommonStep(acc, platformCap, businessCaps) ==
    IF platformCap.Name \in DOMAIN businessCaps
    THEN LET businessCap == businessCaps[platformCap.Name]
         IN  IF ~versionsCompatible(platformCap.Version, businessCap.Version)
             THEN [acc EXCEPT !.VersionMismatches =
                       Append(@, NewVersionMismatch(platformCap, businessCap))]
             ELSE [acc EXCEPT !.CommonCapabilities =
                       Append(@, NegotiatedCap(platformCap, businessCap))]
    ELSE acc

RECURSIVE CommonFrom(_, _, _, _)
CommonFrom(platformCapabilities, businessCaps, i, acc) ==
    IF i > Len(platformCapabilities) THEN acc
    ELSE CommonFrom(platformCapabilities, businessCaps, i + 1,
                    CommonStep(acc, platformCapabilities[i], businessCaps))

\* Found with the name test left out: any common capability counts.
FoundAnyCommon(commonCapabilities, required) ==
    Len(commonCapabilities) > 0

\* The inner loop of "Check required capabilities".
Found(commonCapabilities, required) ==
    \E i \in 1..Len(commonCapabilities) : commonCapabilities[i].Name = required

\* RequiredStep that takes a name with a recorded version mismatch as found.
RequiredStepMismatchFound(acc, required) ==
    IF /\ ~Found(acc.CommonCapabilities, required)
       /\ ~(\E i \in 1..Len(acc.VersionMismatches) :
                acc.VersionMismatches[i].Capability = required)
    THEN [acc EXCEPT !.MissingRequired = Append(@, required), !.Success = FALSE]
    ELSE acc

\* One iteration of "Check required capabilities".
RequiredStep(acc, required) ==
    IF ~Found(acc.CommonCapabilities, required)
    THEN [acc EXCEPT !.MissingRequired = Append(@, required), !.Success = FALSE]
    ELSE acc

RECURSIVE RequiredFrom(_, _, _)
RequiredFrom(requiredCapabilities, i, acc) ==
    IF i > Len(requiredCapabilities) THEN acc
    ELSE RequiredFrom(requiredCapabilities, i + 1,
                      RequiredStep(acc, requiredCapabilities[i]))

\* MismatchesFail left out: Success is what the required loop made it.
MismatchesIgnored(acc) == acc

\* "Version mismatches also fail negotiation".
MismatchesFail(acc) ==
    IF Len(acc.VersionMismatches) > 0 THEN [acc EXCEPT !.Success = FALSE] ELSE acc

\* "Negotiate protocol version": getMinPlatformVersion, then
\* negotiateProtocolVersion; either may panic.
ProtocolVersion(businessProfile, platformCapabilities) ==
    LET min == getMinPlatformVersion(platformCapabilities)
    IN  IF min.panic THEN [panic |-> TRUE, val |-> <<>>]
        ELSE negotiateProtocolVersion(businessProfile.UCP.Version, min.val)

NewResult ==
    [Success            |-> TRUE,
     CommonCapabilities |-> <<>>,
     MissingRequired    |-> <<>>,
     VersionMismatches  |-> <<>>,
     NegotiatedVersion  |-> <<>>]

\* Negotiate: [panicked, result]; result is the *NegotiationResult returned, and
\* is meaningless when the call panicked.
Negotiate(platformCapabilities, businessProfile, requiredCapabilities) ==
    LET businessCaps == BusinessCaps(businessProfile)
        afterCommon  == CommonFrom(platformCapabilities, businessCaps, 1, NewResult)
        afterReq     == RequiredFrom(requiredCapabilities, 1, afterCommon)
        afterFail    == MismatchesFail(afterReq)
        version      == ProtocolVersion(businessProfile, platformCapabilities)
    IN  IF version.panic
        THEN [panicked |-> TRUE, result |-> NewResult]
        ELSE [panicked |-> FALSE,
              result   |-> [afterFail EXCEPT !.NegotiatedVersion = version.val]]

\* The platform list with the lowered versions written into its elements, as
\* a loop over pointers to the elements would leave it.
PlatformLoweredInPlace(platformCapabilities, businessProfile) ==
    LET businessCaps == BusinessCaps(businessProfile)
    IN  [i \in 1..Len(platformCapabilities) |->
            LET platformCap == platformCapabilities[i]
            IN  IF /\ platformCap.Name \in DOMAIN businessCaps
                   /\ versionsCompatible(platformCap.Version,
                                         businessCaps[platformCap.Name].Version)
                THEN NegotiatedCap(platformCap, businessCaps[platformCap.Name])
                ELSE platformCap]

\* n.platformCapabilities after Negotiate: "for _, platformCap := range" and
\* "negotiatedCap := platformCap" copy the element, and Version is assigned to
\* the copy, so the list holds what it held.
PlatformAfterNegotiate(platformCapabilities, businessProfile) ==
    platformCapabilities

\* *businessProfile after Negotiate: the profile is only read (its
\* capabilities through the loop variable cap, a copy).
ProfileAfterNegotiate(businessProfile) == businessProfile

(***************************************************************************)
(* The inputs the negotiator is run on.                                    *)
(***************************************************************************)
\* The total number of list entries of one scenario: platform capabilities,
\* business capabilities and required names together.
MaxItems == 4

SeqsUpTo(S, n) == UNION {[1..k -> S] : k \in 0..n}

V_2025_12_31 == <<"2", "0", "2", "5", "-", "1", "2", "-", "3", "1">>
V_2026_01_01 == <<"2", "0", "2", "6", "-", "0", "1", "-", "0", "1">>
V_2026_06_30 == <<"2", "0", "2", "6", "-", "0", "6", "-", "3", "0">>
\* two parts only: not YYYY-MM-DD, and too short for compareVersions
V_2026_1     == <<"2", "0", "2", "6", "-", "1">>
\* the empty string: a profile that declares no version
V_Empty      == <<>>

CapabilityVersions == {V_2025_12_31, V_2026_01_01, V_2026_06_30, V_2026_1}
ProfileVersions == {V_2026_01_01, V_Empty}

CapabilityNames == {"dev.ucp.shopping.checkout", "dev.ucp.shopping.order"}

\* A models.CapabilityDiscovery.  The fields other than Name and Version tell
\* the platform's declaration of a capability from the business's.
Capability(side, name, version) ==
    [Name    |-> name,
     Version |-> version,
     Spec    |-> side,
     Schema  |-> side,
     Extends |-> side,
     Config  |-> side]

PlatformCapabilitySet ==
    {Capability("platform", n, v) : n \in CapabilityNames, v \in CapabilityVersions}
BusinessCapabilitySet ==
    {Capability("business", n, v) : n \in CapabilityNames, v \in CapabilityVersions}

\* A models.UCPProfile, as far as Negotiate reads it.
Profile(version, capabilities) ==
    [UCP |-> [Version |-> version, Capabilities |-> capabilities]]

NoNegotiator == [built |-> FALSE, platformCapabilities |-> <<>>]
NoCall == [made |-> FALSE, businessProfile |-> Profile(<<>>, <<>>),
           requiredCapabilities |-> <<>>,
           platformBefore |-> <<>>, profileAfter |-> Profile(<<>>, <<>>)]
NoResult == [status |-> "none", result |-> NewResult, addr |-> 0]
NoHistory == [made |-> FALSE, call |-> NoCall, returned |-> NoResult,
              others |-> FALSE]
NoVerifier == [built |-> FALSE, keys |-> EmptyMap, err |-> "nil"]
NoRequest == [made |-> FALSE, present |-> FALSE, value |-> <<>>, body |-> [typ |-> "empty"]]
\* The most goroutines that call VerifyRequest on one verifier at a time.
MaxGoroutines == 2
Goroutines == 1..MaxGoroutines

\* A goroutine that is not inside VerifyRequest.
Idle == [pc |-> "idle", present |-> FALSE, value |-> <<>>, body |-> [typ |-> "empty"],
         key |-> [Kty |-> "none"], outcome |-> "none"]
NoCalls == [g \in Goroutines |-> Idle]

NoVerifyHistory == [keys |-> EmptyMap, jwks |-> <<>>, made |-> FALSE, request |-> NoRequest,
                    outcome |-> "none", others |-> FALSE]

\* No middleware has been applied, no client made, and the server's maps are
\* empty with idCounter at 0.
NoHandler == [kind |-> "none", validKeys |-> <<>>, validator |-> <<>>,
              served |-> FALSE, path |-> "", header |-> [present |-> FALSE, value |-> <<>>],
              nextCalls |-> 0, written |-> <<>>]
NilError == [kind |-> "nil", StatusCode |-> 0]
NilResponse == [nil |-> TRUE, StatusCode |-> 0]
NoClient == [built |-> FALSE, maxRetries |-> 0, pc |-> "idle", i |-> 0,
             lastErr |-> NilError, resp |-> NilResponse, err |-> NilError,
             attempts |-> 0, passed |-> 0, last |-> [resp |-> NilResponse, err |-> NilError]]
NoStore == [checkouts |-> <<>>, orders |-> <<>>, idCounter |-> 0,
            err |-> "none", closed |-> <<>>]

(***************************************************************************)
(* The negotiator's actions.                                               *)
(***************************************************************************)
\* NewCapabilityNegotiator(platformCapabilities)
NewCapabilityNegotiator ==
    /\ ~negotiator.built
    /\ \E caps \in SeqsUpTo(PlatformCapabilitySet, MaxItems) :
           negotiator' = [built |-> TRUE, platformCapabilities |-> caps]
    /\ UNCHANGED <<negCall, negResult, negHistory, verVars, appVars>>

\* One result object, kept by the negotiator and handed out by every call.
NewObjectReused(live) == 1

\* result := &NegotiationResult{...}: a new object, at an address that no
\* object the caller still holds has.
NewObject(live) == CHOOSE a \in 1..(Cardinality(live) + 1) : a \notin live

\* The addresses of the results the caller still holds.
LiveResults == IF negHistory.made THEN {negHistory.returned.addr} ELSE {}

\* n.Negotiate(businessProfile, requiredCapabilities) on the negotiator as it
\* is: the call returns a result or panics, and leaves the negotiator's list
\* and the profile as its loops leave them.
NegotiateStep(businessProfile, requiredCapabilities) ==
    LET r == Negotiate(negotiator.platformCapabilities, businessProfile,
                       requiredCapabilities)
    IN  /\ negCall' = [made |-> TRUE, businessProfile |-> businessProfile,
                       requiredCapabilities |-> requiredCapabilities,
                       platformBefore |-> negotiator.platformCapabilities,
                       profileAfter |-> ProfileAfterNegotiate(businessProfile)]
        /\ negResult' = [status |-> IF r.panicked THEN "panicked" ELSE "returned",
                         result |-> r.result,
                         addr   |-> NewObject(LiveResults)]
        /\ negotiator' = [negotiator EXCEPT !.platformCapabilities =
                              PlatformAfterNegotiate(@, businessProfile)]

NegotiateCall ==
    /\ negotiator.built
    /\ negResult.status = "none"
    /\ \E bcaps \in SeqsUpTo(BusinessCapabilitySet,
                             MaxItems - Len(negotiator.platformCapabilities)) :
       \E req \in SeqsUpTo(CapabilityNames,
                           MaxItems - Len(negotiator.platformCapabilities) - Len(bcaps)) :
       \E version \in ProfileVersions :
           NegotiateStep(Profile(version, bcaps), req)
    /\ UNCHANGED <<negHistory, verVars, appVars>>

\* The caller drops the result; the negotiator is ready for the next call.  A
\* panic is not recovered from: the run ends there.
ReleaseResult ==
    /\ negResult.status = "returned"
    /\ negCall' = NoCall
    /\ negResult' = NoResult
    /\ UNCHANGED <<negotiator, negHistory, verVars, appVars>>

Init ==
    /\ negotiator = NoNegotiator
    /\ negCall = NoCall
    /\ negResult = NoResult
    /\ negHistory = NoHistory
    /\ verifier = NoVerifier
    /\ request = NoRequest
    /\ outcome = "none"
    /\ verHistory = NoVerifyHistory
    /\ calls = NoCalls
    /\ handler = NoHandler
    /\ client = NoClient
    /\ store = NoStore

Next ==
    \/ NewCapabilityNegotiator
    \/ NegotiateCall
    \/ ReleaseResult

Spec == Init /\ [][Next]_vars

(***************************************************************************)
(* Repeated negotiation: a caller keeps the result of its first call and   *)
(* goes on calling Negotiate on the same negotiator.                       *)
(***************************************************************************)
\* The total number of list entries of one scenario of repeated calls.
MaxRepeatItems == 2

RepeatPlatformSet ==
    {Capability("platform", n, v) :
        n \in CapabilityNames, v \in {V_2026_01_01, V_2026_06_30}}
RepeatBusinessSet ==
    {Capability("business", n, v) :
        n \in CapabilityNames, v \in {V_2025_12_31, V_2026_01_01, V_2026_06_30}}

NewCapabilityNegotiatorRepeat ==
    /\ ~negotiator.built
    /\ \E caps \in SeqsUpTo(RepeatPlatformSet, MaxRepeatItems) :
           negotiator' = [built |-> TRUE, platformCapabilities |-> caps]
    /\ UNCHANGED <<negCall, negResult, negHistory, verVars, appVars>>

\* The inputs of the call just made are those of the call that was kept.
SameInputs(call, kept) ==
    /\ call.businessProfile = kept.businessProfile
    /\ call.requiredCapabilities = kept.requiredCapabilities

\* A Negotiate call of a caller that keeps its first call's inputs and result
\* and notes whether it has called with other inputs since.
NegotiateRepeat ==
    /\ negotiator.built
    /\ negResult.status = "none"
    /\ \E bcaps \in SeqsUpTo(RepeatBusinessSet,
                             MaxRepeatItems - Len(negotiator.platformCapabilities)) :
       \E req \in SeqsUpTo(CapabilityNames,
                           MaxRepeatItems - Len(negotiator.platformCapabilities)
                               - Len(bcaps)) :
           NegotiateStep(Profile(V_2026_01_01, bcaps), req)
    /\ negHistory' =
           IF negHistory.made
           THEN [negHistory EXCEPT !.others = @ \/ ~SameInputs(negCall', negHistory.call)]
           ELSE [made |-> TRUE, call |-> negCall', returned |-> negResult',
                 others |-> FALSE]
    /\ UNCHANGED <<verVars, appVars>>

RepeatNext ==
    \/ NewCapabilityNegotiatorRepeat
    \/ NegotiateRepeat
    \/ ReleaseResult

RepeatSpec == Init /\ [][RepeatNext]_vars

(***************************************************************************)
(* Properties of Negotiate.  The definitions below state what a result     *)
(* must be from the call's inputs alone, without the operators above.      *)
(***************************************************************************)
Returned == negResult.status = "returned"
platformCaps == negotiator.platformCapabilities
businessList == negCall.businessProfile.UCP.Capabilities
requiredNames == negCall.requiredCapabilities
result == negResult.result

Range(seq) == {seq[i] : i \in 1..Len(seq)}

\* v is of the form YYYY-MM-DD.
IsYMD(v) ==
    /\ Len(v) = 10
    /\ v[5] = "-" /\ v[8] = "-"
    /\ \A i \in (1..10) \ {5, 8} : v[i] \in Digits

\* (year, month, day) of a YYYY-MM-DD version, as integers.
YMD(v) ==
    <<1000 * DigitVal(v[1]) + 100 * DigitVal(v[2]) + 10 * DigitVal(v[3]) + DigitVal(v[4]),
      10 * DigitVal(v[6]) + DigitVal(v[7]),
      10 * DigitVal(v[9]) + DigitVal(v[10])>>

TripleLess(a, b) ==
    \/ a[1] < b[1]
    \/ a[1] = b[1] /\ a[2] < b[2]
    \/ a[1] = b[1] /\ a[2] = b[2] /\ a[3] < b[3]

EarlierVersion(v1, v2) == IF TripleLess(YMD(v2), YMD(v1)) THEN v2 ELSE v1

\* Both YYYY-MM-DD with the same four year characters.
SameYear(v1, v2) == IsYMD(v1) /\ IsYMD(v2) /\ SubSeq(v1, 1, 4) = SubSeq(v2, 1, 4)

\* The business capability indexed under a name: the last of that name.
DeclaredByBusiness(name) == \E j \in 1..Len(businessList) : businessList[j].Name = name
DeclaredByPlatform(name) == \E i \in 1..Len(platformCaps) : platformCaps[i].Name = name
IndexedBusinessCap(name) ==
    LET last == CHOOSE j \in 1..Len(businessList) :
                    /\ businessList[j].Name = name
                    /\ \A k \in (j + 1)..Len(businessList) : businessList[k].Name # name
    IN  businessList[last]

\* The platform entries that have a business capability of their name.
Matched == {i \in 1..Len(platformCaps) : DeclaredByBusiness(platformCaps[i].Name)}
CompatibleEntries ==
    {i \in Matched : SameYear(platformCaps[i].Version,
                              IndexedBusinessCap(platformCaps[i].Name).Version)}

\* C1: a returned result has Success = TRUE exactly when MissingRequired and
\* VersionMismatches are both empty.
C1_SuccessIffNothingMissingOrMismatched ==
    Returned =>
        (result.Success <=>
            (result.MissingRequired = <<>> /\ result.VersionMismatches = <<>>))

\* C1 witness: a call with no required name missing that fails on a version
\* mismatch alone.
C1_Witness ==
    /\ Returned
    /\ ~result.Success
    /\ result.MissingRequired = <<>>
    /\ result.VersionMismatches # <<>>
    /\ requiredNames # <<>>

\* C7: the k-th platform entry that is compatible with the business capability
\* indexed under its name yields the k-th common descriptor: the platform's
\* descriptor with its version replaced by the earlier of the two versions.
C7_CommonIsPlatformCapAtEarlierVersion ==
    Returned =>
        /\ Len(result.CommonCapabilities) = Cardinality(CompatibleEntries)
        /\ \A i \in CompatibleEntries :
               LET p == platformCaps[i]
                   b == IndexedBusinessCap(p.Name)
                   k == Cardinality({j \in CompatibleEntries : j <= i})
               IN  result.CommonCapabilities[k] =
                       [p EXCEPT !.Version = EarlierVersion(p.Version, b.Version)]

\* C7 witness: a common descriptor that carries the platform's fields and the
\* business's version, which is earlier than the platform's.
C7_Witness ==
    /\ Returned
    /\ \E i \in CompatibleEntries :
           LET p == platformCaps[i]
               b == IndexedBusinessCap(p.Name)
           IN  /\ TripleLess(YMD(b.Version), YMD(p.Version))
               /\ [p EXCEPT !.Version = b.Version] \in Range(result.CommonCapabilities)
               /\ p \notin Range(result.CommonCapabilities)

\* C8: for a platform entry p and the business capability b indexed under its
\* name, the mismatch (name, p.version, b.version) is recorded and Success is
\* FALSE exactly when the versions are not both YYYY-MM-DD of the same year;
\* the entries that are added to CommonCapabilities are the others.
C8_MismatchIffNotSameYear ==
    Returned =>
        /\ \A i \in Matched :
               LET p == platformCaps[i]
                   b == IndexedBusinessCap(p.Name)
                   mm == [Capability |-> p.Name, PlatformVersion |-> p.Version,
                          BusinessVersion |-> b.Version]
               IN  (mm \in Range(result.VersionMismatches) /\ ~result.Success)
                       <=> ~SameYear(p.Version, b.Version)
        /\ Len(result.VersionMismatches) = Cardinality(Matched \ CompatibleEntries)
        /\ Len(result.CommonCapabilities) = Cardinality(CompatibleEntries)

\* C8 witness: 2025-12-31 against 2026-01-01 is recorded as a mismatch, while a
\* second platform entry of the same name, of 2026-06-30, is common.
C8_Witness ==
    /\ Returned
    /\ ~result.Success
    /\ \E i, j \in Matched :
           /\ platformCaps[i].Name = platformCaps[j].Name
           /\ platformCaps[i].Version = V_2025_12_31
           /\ platformCaps[j].Version = V_2026_06_30
           /\ IndexedBusinessCap(platformCaps[i].Name).Version = V_2026_01_01
           /\ [Capability |-> platformCaps[i].Name, PlatformVersion |-> V_2025_12_31,
               BusinessVersion |-> V_2026_01_01] \in Range(result.VersionMismatches)
           /\ Len(result.CommonCapabilities) = 1

\* C9: a required name is in MissingRequired exactly when no common descriptor
\* has that name, which is the case whenever one of the two sides does not
\* declare it; a missing required name makes Success FALSE.
C9_MissingIffNotCommon ==
    Returned =>
        /\ Range(result.MissingRequired) \subseteq Range(requiredNames)
        /\ \A k \in 1..Len(requiredNames) :
               LET name == requiredNames[k]
               IN  /\ (name \in Range(result.MissingRequired))
                          <=> ~(\E j \in 1..Len(result.CommonCapabilities) :
                                    result.CommonCapabilities[j].Name = name)
                   /\ ~(DeclaredByPlatform(name) /\ DeclaredByBusiness(name))
                          => name \in Range(result.MissingRequired)
        /\ (result.MissingRequired # <<>> => ~result.Success)

\* C9 witness: a required name that only the platform declares is reported
\* missing, while another capability is common.
C9_Witness ==
    /\ Returned
    /\ result.CommonCapabilities # <<>>
    /\ ~result.Success
    /\ \E k \in 1..Len(requiredNames) :
           /\ DeclaredByPlatform(requiredNames[k])
           /\ ~DeclaredByBusiness(requiredNames[k])
           /\ requiredNames[k] \in Range(result.MissingRequired)

\* C10: Negotiate never aborts: every call returns a NegotiationResult.
C10_NegotiateNeverPanics ==
    negCall.made => negResult.status = "returned"

\* The platform declared a capability, and every version the call reads for
\* NegotiatedVersion is a YYYY-MM-DD date.
DatesOnly ==
    /\ platformCaps # <<>>
    /\ \A i \in 1..Len(platformCaps) : IsYMD(platformCaps[i].Version)
    /\ IsYMD(negCall.businessProfile.UCP.Version)

\* The minimum version over the whole platform list.
PlatformMinimum ==
    CHOOSE v \in {platformCaps[i].Version : i \in 1..Len(platformCaps)} :
        \A i \in 1..Len(platformCaps) : ~TripleLess(YMD(platformCaps[i].Version), YMD(v))

\* C11: NegotiatedVersion is the earlier, by (year, month, day), of the
\* business profile's version and the minimum version over every capability
\* of the platform list, whatever Success is and whichever capabilities are
\* common.
C11_NegotiatedVersionIsEarlier ==
    (Returned /\ DatesOnly) =>
        result.NegotiatedVersion =
            EarlierVersion(PlatformMinimum, negCall.businessProfile.UCP.Version)

\* C11 witness: a failed negotiation whose NegotiatedVersion is the version of
\* a platform capability that is not the first of the list and is not common.
C11_Witness ==
    /\ Returned
    /\ DatesOnly
    /\ ~result.Success
    /\ Len(platformCaps) >= 2
    /\ result.NegotiatedVersion = V_2025_12_31
    /\ platformCaps[1].Version # V_2025_12_31
    /\ \A k \in 1..Len(result.CommonCapabilities) :
           result.CommonCapabilities[k].Version # V_2025_12_31
    /\ result.CommonCapabilities # <<>>

\* C12: a negotiator built from an empty platform list returns the business
\* profile's declared version as NegotiatedVersion.
C12_EmptyPlatformBusinessVersionWins ==
    (Returned /\ platformCaps = <<>>) =>
        result.NegotiatedVersion = negCall.businessProfile.UCP.Version

EmptyBytes == [typ |-> "empty"]
\* the bytes of the JSON object {"alg": alg, "kid": kid}
JSONHeader(alg, kid) == [typ |-> "json", alg |-> alg, kid |-> kid]
\* n bytes that are neither JSON nor a signature anybody made
Junk(n) == [typ |-> "junk", len |-> n]
\* literal bytes
Bytes(data) == [typ |-> "bytes", data |-> data]
\* the big-endian bytes of one number of a key pair's public key
KeyPart(part, pair) == [typ |-> "key", part |-> part, pair |-> pair]
\* a request body
BodyBytes(name) == [typ |-> "body", name |-> name]

\* base64.RawURLEncoding.EncodeToString
EncodeToString(bytes) == [enc |-> "b64", bytes |-> bytes]
\* a string with a character outside the base64url alphabet
NotBase64 == [enc |-> "bad", bytes |-> EmptyBytes]
\* the empty string ""
EmptyText == EncodeToString(EmptyBytes)
\* the character "."
Dot == [enc |-> "dot", bytes |-> EmptyBytes]

\* base64.RawURLEncoding.DecodeString: the bytes, or an error
DecodeString(text) ==
    IF text.enc = "b64" THEN [err |-> FALSE, bytes |-> text.bytes]
    ELSE [err |-> TRUE, bytes |-> EmptyBytes]

\* The text of one element of strings.Split(sig, "."): "" or its one symbol.
PartText(part) == IF part = <<>> THEN EmptyText ELSE part[1]

(***************************************************************************)
(* Key pairs and the cryptographic primitives (crypto/ecdsa, crypto/rsa).  *)
(* SHA-256 is taken to be collision free: a signature names the signing    *)
(* input it was made over.  ECDSA signing is randomised: one key and one   *)
(* input have several valid signatures (one per nonce).  An ECDSA          *)
(* signature is r || s at the curve's width; an RSA signature is as long   *)
(* as the modulus.                                                         *)
(***************************************************************************)
KeyPairs == {"P256a", "P256b", "P384a", "RSAa"}

PairKty(pair) == IF pair = "RSAa" THEN "RSA" ELSE "EC"
PairCrv(pair) ==
    CASE pair \in {"P256a", "P256b"} -> "P-256"
      [] pair = "P384a" -> "P-384"
      [] OTHER -> ""
SignatureLen(pair) ==
    CASE pair \in {"P256a", "P256b"} -> 64
      [] pair = "P384a" -> 96
      [] OTHER -> 256

\* the exponent 65537 of every RSA pair, big-endian
ExponentBytes == Bytes(<<1, 0, 1>>)

\* "Convert E to int": e = e<<8 + int(b) over the bytes
RECURSIVE ExponentFrom(_, _)
ExponentFrom(eBytes, e) ==
    IF eBytes = <<>> THEN e ELSE ExponentFrom(Tail(eBytes), e * 256 + Head(eBytes))

BytesData(bytes) == IF bytes.typ = "bytes" THEN bytes.data ELSE <<>>

\* The public key of a pair, as crypto.PublicKey values.
ECPublicKey(curve, x, y) == [Kty |-> "EC", Curve |-> curve, X |-> x, Y |-> y]
RSAPublicKey(n, e) == [Kty |-> "RSA", N |-> n, E |-> e]
PublicKeyOf(pair) ==
    IF PairKty(pair) = "EC"
    THEN ECPublicKey(PairCrv(pair), KeyPart("x", pair), KeyPart("y", pair))
    ELSE RSAPublicKey(KeyPart("n", pair), 65537)

\* The signature the holder of pair's private key makes over signingInput.
Sign(pair, signingInput, nonce) ==
    [typ |-> "sig", pair |-> pair, msg |-> signingInput, nonce |-> nonce,
     len |-> SignatureLen(pair)]

ByteLen(bytes) ==
    CASE bytes.typ = "empty" -> 0
      [] bytes.typ = "junk" -> bytes.len
      [] bytes.typ = "sig" -> bytes.len
      [] bytes.typ = "bytes" -> Len(bytes.data)
      [] bytes.typ = "json" -> 26
      [] OTHER -> 32

\* ecdsa.Verify(ecKey, sha256(signingInput), r, s) with r || s = signature
ecdsaVerify(ecKey, signingInput, signature) ==
    /\ signature.typ = "sig"
    /\ PairKty(signature.pair) = "EC"
    /\ PublicKeyOf(signature.pair) = ecKey
    /\ signature.msg = signingInput

\* rsa.VerifyPKCS1v15(rsaKey, crypto.SHA256, sha256(signingInput), signature) = nil
rsaVerifyPKCS1v15(rsaKey, signingInput, signature) ==
    /\ signature.typ = "sig"
    /\ PairKty(signature.pair) = "RSA"
    /\ PublicKeyOf(signature.pair) = rsaKey
    /\ signature.msg = signingInput

(***************************************************************************)
(* NewWebhookVerifier and the JWK conversions.  A conversion is            *)
(* [err, key]; err is "nil" or the message of the error.                   *)
(***************************************************************************)
NoKey == [Kty |-> "none"]
KeyError(msg) == [err |-> msg, key |-> NoKey]

getCurve(name) ==
    IF name \in {"P-256", "P-384", "P-521"} THEN [err |-> "nil", curve |-> name]
    ELSE [err |-> "unsupported curve", curve |-> ""]

\* jwkToECDSAPublicKey with the curve looked up before the coordinates are
\* decoded.
jwkToECDSAPublicKeyCurveFirst(jwk) ==
    IF jwk.X = EmptyText \/ jwk.Y = EmptyText THEN KeyError("missing EC key coordinates")
    ELSE IF getCurve(jwk.Crv).err # "nil" THEN KeyError(getCurve(jwk.Crv).err)
    ELSE IF DecodeString(jwk.X).err THEN KeyError("failed to decode X coordinate")
    ELSE IF DecodeString(jwk.Y).err THEN KeyError("failed to decode Y coordinate")
    ELSE [err |-> "nil",
          key |-> ECPublicKey(getCurve(jwk.Crv).curve,
                              DecodeString(jwk.X).bytes, DecodeString(jwk.Y).bytes)]

jwkToECDSAPublicKey(jwk) ==
    IF jwk.X = EmptyText \/ jwk.Y = EmptyText THEN KeyError("missing EC key coordinates")
    ELSE IF DecodeString(jwk.X).err THEN KeyError("failed to decode X coordinate")
    ELSE IF DecodeString(jwk.Y).err THEN KeyError("failed to decode Y coordinate")
    ELSE IF getCurve(jwk.Crv).err # "nil" THEN KeyError(getCurve(jwk.Crv).err)
    ELSE [err |-> "nil",
          key |-> ECPublicKey(getCurve(jwk.Crv).curve,
                              DecodeString(jwk.X).bytes, DecodeString(jwk.Y).bytes)]

jwkToRSAPublicKey(jwk) ==
    IF jwk.N = EmptyText \/ jwk.E = EmptyText THEN KeyError("missing RSA key components")
    ELSE IF DecodeString(jwk.N).err THEN KeyError("failed to decode N")
    ELSE IF DecodeString(jwk.E).err THEN KeyError("failed to decode E")
    ELSE [err |-> "nil",
          key |-> RSAPublicKey(DecodeString(jwk.N).bytes,
                               ExponentFrom(BytesData(DecodeString(jwk.E).bytes), 0))]

jwkToPublicKey(jwk) ==
    CASE jwk.Kty = "EC" -> jwkToECDSAPublicKey(jwk)
      [] jwk.Kty = "RSA" -> jwkToRSAPublicKey(jwk)
      [] OTHER -> KeyError("unsupported key type")

\* The loop of NewWebhookVerifier keeping the key a kid was first given.
RECURSIVE LoadKeysFromFirstWins(_, _, _)
LoadKeysFromFirstWins(jwks, i, keys) ==
    IF i > Len(jwks) THEN [built |-> TRUE, keys |-> keys, err |-> "nil"]
    ELSE LET r == jwkToPublicKey(jwks[i])
         IN  IF r.err # "nil" THEN [built |-> FALSE, keys |-> EmptyMap, err |-> r.err]
             ELSE LoadKeysFromFirstWins(jwks, i + 1,
                      IF jwks[i].Kid \in DOMAIN keys THEN keys
                      ELSE MapPut(keys, jwks[i].Kid, r.key))

\* The loop of NewWebhookVerifier: the first JWK that fails ends it with no
\* verifier; otherwise v.keys[jwk.Kid] = key.
RECURSIVE LoadKeysFrom(_, _, _)
LoadKeysFrom(jwks, i, keys) ==
    IF i > Len(jwks) THEN [built |-> TRUE, keys |-> keys, err |-> "nil"]
    ELSE LET r == jwkToPublicKey(jwks[i])
         IN  IF r.err # "nil" THEN [built |-> FALSE, keys |-> EmptyMap, err |-> r.err]
             ELSE LoadKeysFrom(jwks, i + 1, MapPut(keys, jwks[i].Kid, r.key))

NewWebhookVerifierOf(jwks) == LoadKeysFrom(jwks, 1, EmptyMap)

(***************************************************************************)
(* WebhookVerifier.VerifyRequest.  The result is the error's message, or   *)
(* "nil".                                                                  *)
(***************************************************************************)
\* verifyES256 that takes r and s as the halves of a signature of any length.
verifyES256AnyLength(key, signingInput, signature) ==
    IF key.Kty # "EC" THEN "invalid key type for ES256"
    ELSE IF ~ecdsaVerify(key, signingInput, signature)
         THEN "signature verification failed"
    ELSE "nil"

\* verifyES256 that leaves a signature of the wrong length to ecdsa.Verify.
verifyES256NoLengthError(key, signingInput, signature) ==
    IF key.Kty # "EC" THEN "invalid key type for ES256"
    ELSE IF ByteLen(signature) # 64 \/ ~ecdsaVerify(key, signingInput, signature)
         THEN "signature verification failed"
    ELSE "nil"

\* verifyES256 with the length test before the key type assertion.
verifyES256LengthFirst(key, signingInput, signature) ==
    IF ByteLen(signature) # 64 THEN "invalid ES256 signature length"
    ELSE IF key.Kty # "EC" THEN "invalid key type for ES256"
    ELSE IF ~ecdsaVerify(key, signingInput, signature)
         THEN "signature verification failed"
    ELSE "nil"

verifyES256(key, signingInput, signature) ==
    IF key.Kty # "EC" THEN "invalid key type for ES256"
    ELSE IF ByteLen(signature) # 64 THEN "invalid ES256 signature length"
    ELSE IF ~ecdsaVerify(key, signingInput, signature)
         THEN "signature verification failed"
    ELSE "nil"

\* verifyRS256 asserting the wrong key type.
verifyRS256WrongType(key, signingInput, signature) ==
    IF key.Kty # "EC" THEN "invalid key type for RS256"
    ELSE IF ~rsaVerifyPKCS1v15(key, signingInput, signature)
         THEN "signature verification failed"
    ELSE "nil"

verifyRS256(key, signingInput, signature) ==
    IF key.Kty # "RSA" THEN "invalid key type for RS256"
    ELSE IF ~rsaVerifyPKCS1v15(key, signingInput, signature)
         THEN "signature verification failed"
    ELSE "nil"

\* r.Header.Get("X-Detached-JWT"): "" when the header is absent.
HeaderGet(r) == IF r.present THEN r.value ELSE <<>>

\* len(parts) != 3, with "at least three" in place of "exactly three".
InvalidJWSFormatTooFew(parts) == Len(parts) < 3

\* len(parts) != 3
InvalidJWSFormat(parts) == Len(parts) # 3

\* The signing input taken from the header value's own payload segment.
SigningInputAttached(parts, body) == <<PartText(parts[1]), PartText(parts[2])>>

\* signingInput := parts[0] + "." + base64url(body).  Neither half holds a
\* ".", so the pair determines the string.
SigningInput(parts, body) == <<PartText(parts[1]), EncodeToString(body)>>

\* The switch with a case that takes the unsecured "none" as verified.
VerifyByAlgorithmNoneAccepted(alg, key, signingInput, signature) ==
    CASE alg = "ES256" -> verifyES256(key, signingInput, signature)
      [] alg = "RS256" -> verifyRS256(key, signingInput, signature)
      [] alg = "none" -> "nil"
      [] OTHER -> "unsupported algorithm"

\* "Verify based on algorithm"
VerifyByAlgorithm(alg, key, signingInput, signature) ==
    CASE alg = "ES256" -> verifyES256(key, signingInput, signature)
      [] alg = "RS256" -> verifyRS256(key, signingInput, signature)
      [] OTHER -> "unsupported algorithm"

\* VerifyFromKey with the signature decoded before the key is looked up.
VerifyFromKeyDecodeFirst(keys, header, parts, body) ==
    LET sigDec == DecodeString(PartText(parts[3]))
    IN  IF sigDec.err THEN "failed to decode signature"
        ELSE IF header.kid \notin DOMAIN keys THEN "unknown key ID"
        ELSE VerifyByAlgorithm(header.alg, keys[header.kid],
                               SigningInput(parts, body), sigDec.bytes)

\* VerifyRequest after the key was read from v.keys: the signing input, the
\* signature's decoding and the verification, on local variables only.
VerifyWithKey(header, key, parts, body) ==
    LET sigDec == DecodeString(PartText(parts[3]))
    IN  IF sigDec.err THEN "failed to decode signature"
        ELSE VerifyByAlgorithm(header.alg, key, SigningInput(parts, body), sigDec.bytes)

\* VerifyRequest from "Get the signing key" on.
VerifyFromKey(keys, header, parts, body) ==
    IF header.kid \notin DOMAIN keys THEN "unknown key ID"
    ELSE VerifyWithKey(header, keys[header.kid], parts, body)

\* ParseDetachedJWS of a verifier that insists on an empty payload segment.
ParseDetachedJWSStrict(r) ==
    LET sig == HeaderGet(r)
        parts == Split(sig, Dot)
        headerDec == DecodeString(PartText(parts[1]))
        failed(msg) == [err |-> msg, header |-> JSONHeader("", ""), parts |-> <<>>]
    IN  IF sig = <<>> THEN failed("missing X-Detached-JWT header")
        ELSE IF InvalidJWSFormat(parts) THEN failed("invalid JWS format")
        ELSE IF parts[2] # <<>> THEN failed("invalid JWS format")
        ELSE IF headerDec.err THEN failed("failed to decode JWS header")
        ELSE IF headerDec.bytes.typ # "json" THEN failed("failed to parse JWS header")
        ELSE [err |-> "nil", header |-> headerDec.bytes, parts |-> parts]

\* VerifyRequest up to the parsed header, on the request alone: the error it
\* returns, or "nil" with the header and the parts.
ParseDetachedJWS(r) ==
    LET sig == HeaderGet(r)
        parts == Split(sig, Dot)
        headerDec == DecodeString(PartText(parts[1]))
        failed(msg) == [err |-> msg, header |-> JSONHeader("", ""), parts |-> <<>>]
    IN  IF sig = <<>> THEN failed("missing X-Detached-JWT header")
        ELSE IF InvalidJWSFormat(parts) THEN failed("invalid JWS format")
        ELSE IF headerDec.err THEN failed("failed to decode JWS header")
        \* json.Unmarshal into struct{Alg, Kid}
        ELSE IF headerDec.bytes.typ # "json" THEN failed("failed to parse JWS header")
        ELSE [err |-> "nil", header |-> headerDec.bytes, parts |-> parts]

VerifyRequest(keys, r, body) ==
    LET parsed == ParseDetachedJWS(r)
    IN  IF parsed.err # "nil" THEN parsed.err
        ELSE VerifyFromKey(keys, parsed.header, parsed.parts, body)

\* v.keys with the key of every lookup removed, as a verifier of one-time
\* keys would leave it.
KeysAfterLookupEvicting(keys, kid) == [k \in (DOMAIN keys) \ {kid} |-> keys[k]]

\* v.keys after "key, ok := v.keys[header.Kid]": a map read writes nothing.
KeysAfterLookup(keys, kid) == keys

\* v.keys after a whole VerifyRequest of a verifier that drops the key it
\* looked up.
KeysAfterVerifyRequestEvicting(keys, r) ==
    LET parsed == ParseDetachedJWS(r)
    IN  IF parsed.err # "nil" THEN keys
        ELSE KeysAfterLookupEvicting(keys, parsed.header.kid)

\* v.keys after a whole VerifyRequest: the lookup is its only access, made
\* when the header parsed.
KeysAfterVerifyRequest(keys, r) ==
    LET parsed == ParseDetachedJWS(r)
    IN  IF parsed.err # "nil" THEN keys ELSE KeysAfterLookup(keys, parsed.header.kid)

(***************************************************************************)
(* The inputs the verifier is run on.                                      *)
(***************************************************************************)
\* The longest JWK list a verifier is built from.
MaxJWKs == 2
\* The most dot-separated segments of a header value.
MaxSegments == 4

Kids == {"k1", "k2"}
Algs == {"ES256", "RS256", "ES384", "none", ""}
Bodies == {BodyBytes("b1"), BodyBytes("b2")}
Nonces(pair) == IF pair = "P256a" THEN {1, 2} ELSE {1}

\* The public JWK of a key pair, published under kid.
PublicJWK(pair, kid) ==
    IF PairKty(pair) = "EC"
    THEN [Kid |-> kid, Kty |-> "EC", Crv |-> PairCrv(pair),
          X |-> EncodeToString(KeyPart("x", pair)),
          Y |-> EncodeToString(KeyPart("y", pair)),
          N |-> EmptyText, E |-> EmptyText]
    ELSE [Kid |-> kid, Kty |-> "RSA", Crv |-> "",
          X |-> EmptyText, Y |-> EmptyText,
          N |-> EncodeToString(KeyPart("n", pair)),
          E |-> EncodeToString(ExponentBytes)]

GoodJWKs == {PublicJWK(pair, kid) : pair \in KeyPairs, kid \in Kids}
BadJWKs ==
    {[PublicJWK("P256a", "k1") EXCEPT !.Kty = "oct"],
     [PublicJWK("P256a", "k1") EXCEPT !.X = EmptyText],
     [PublicJWK("P256a", "k1") EXCEPT !.X = NotBase64],
     [PublicJWK("P256a", "k1") EXCEPT !.Y = NotBase64],
     [PublicJWK("P256a", "k1") EXCEPT !.Crv = "secp256k1"],
     [PublicJWK("RSAa", "k2") EXCEPT !.N = EmptyText],
     [PublicJWK("RSAa", "k2") EXCEPT !.N = NotBase64],
     [PublicJWK("RSAa", "k2") EXCEPT !.E = NotBase64]}
JWKs == GoodJWKs \cup BadJWKs

\* strings.Join(texts, "."), as a header value: the empty text adds no symbol.
RECURSIVE JoinDots(_)
JoinDots(texts) ==
    IF texts = <<>> THEN <<>>
    ELSE (IF Head(texts) = EmptyText THEN <<>> ELSE <<Head(texts)>>)
         \o (IF Len(texts) = 1 THEN <<>> ELSE <<Dot>> \o JoinDots(Tail(texts)))

HeaderTexts ==
    {EncodeToString(JSONHeader(alg, kid)) : alg \in Algs, kid \in Kids}
        \cup {EmptyText, NotBase64, EncodeToString(Junk(26))}
PayloadTexts == {EmptyText, EncodeToString(BodyBytes("b1")), NotBase64}
\* Signature segments for a protected header h: the signatures the key pairs
\* make over h and a body, and texts that are no signature at all.
SignatureTexts(h) ==
    {EncodeToString(Sign(pair, <<h, EncodeToString(b)>>, n)) :
        <<pair, b, n>> \in {t \in KeyPairs \X Bodies \X {1, 2} : t[3] \in Nonces(t[1])}}
        \cup {EmptyText, NotBase64, EncodeToString(Junk(63)),
              EncodeToString(Junk(64)), EncodeToString(Junk(256))}
OtherTexts ==
    {EmptyText, EncodeToString(JSONHeader("ES256", "k1")), EncodeToString(Junk(64))}

HeaderValues ==
    {JoinDots(<<h, m, s>>) : <<h, m, s>> \in
        {t \in HeaderTexts \X PayloadTexts \X
               UNION {SignatureTexts(h) : h \in HeaderTexts} :
            t[3] \in SignatureTexts(t[1])}}
    \cup UNION {{JoinDots(texts) : texts \in [1..n -> OtherTexts]} :
                    n \in (1..MaxSegments) \ {3}}

(***************************************************************************)
(* The verifier's actions.                                                 *)
(***************************************************************************)
\* NewWebhookVerifier(jwks), and a note of the mapping it built.
NewVerifierStep(jwks) ==
    /\ verifier' = NewWebhookVerifierOf(jwks)
    /\ verHistory' = [verHistory EXCEPT !.keys = NewWebhookVerifierOf(jwks).keys]

\* NewWebhookVerifier(jwks): a verifier, or an error and no verifier.
NewWebhookVerifier ==
    /\ ~verifier.built
    /\ verifier.err = "nil"
    /\ \E jwks \in SeqsUpTo(JWKs, MaxJWKs) : NewVerifierStep(jwks)
    /\ UNCHANGED <<request, outcome, calls, negVars, appVars>>

\* v.VerifyRequest(r, body), as one step: the outcome, and v.keys as the
\* call leaves it.
VerifyStep(present, value, body) ==
    /\ request' = [made |-> TRUE, present |-> present, value |-> value, body |-> body]
    /\ outcome' = VerifyRequest(verifier.keys, [present |-> present, value |-> value],
                                body)
    /\ verifier' = [verifier EXCEPT !.keys =
                        KeysAfterVerifyRequest(@, [present |-> present, value |-> value])]

VerifyRequestCall ==
    /\ verifier.built
    /\ ~request.made
    /\ \E present \in BOOLEAN, value \in HeaderValues, body \in Bodies :
           /\ (~present => value = <<>>)
           /\ VerifyStep(present, value, body)
    /\ UNCHANGED <<verHistory, calls, negVars, appVars>>

\* The handler answers the request; the verifier is ready for the next one.
Respond ==
    /\ request.made
    /\ request' = NoRequest
    /\ outcome' = "none"
    /\ UNCHANGED <<verifier, verHistory, calls, negVars, appVars>>

VerifyNext ==
    \/ NewWebhookVerifier
    \/ VerifyRequestCall
    \/ Respond

VerifySpec == Init /\ [][VerifyNext]_vars

(***************************************************************************)
(* Concurrent verification: goroutines call VerifyRequest on one verifier. *)
(* A call takes three steps: the parsing of the header value (local), the  *)
(* read of v.keys (the one access to shared memory), and the verification  *)
(* with the key that was read (local).                                     *)
(***************************************************************************)
ConcurrentJWKs ==
    {PublicJWK("P256a", "k1"), PublicJWK("RSAa", "k2"), PublicJWK("RSAa", "k1")}

\* The request a signer with pair, published under kid with alg, sends for
\* signedBody, arriving with sentBody.
SignedRequest(pair, alg, kid, signedBody, sentBody) ==
    LET h == EncodeToString(JSONHeader(alg, kid))
        signature == Sign(pair, <<h, EncodeToString(signedBody)>>, 1)
    IN  [present |-> TRUE,
         value   |-> JoinDots(<<h, EmptyText, EncodeToString(signature)>>),
         body    |-> sentBody]

ConcurrentRequests ==
    {SignedRequest("P256a", "ES256", "k1", BodyBytes("b1"), b) : b \in Bodies}
        \cup {SignedRequest("RSAa", "RS256", "k2", BodyBytes("b1"), b) : b \in Bodies}
        \cup {[present |-> FALSE, value |-> <<>>, body |-> BodyBytes("b1")]}

\* Requests signed under kid "k2" by the P-256 pair as ES256 and by the RSA
\* pair as RS256, and under kid "k1" by the P-384 pair, labelled ES256.
KeyedRequests ==
    {SignedRequest("P256a", "ES256", "k2", BodyBytes("b1"), b) : b \in Bodies}
        \cup {SignedRequest("RSAa", "RS256", "k2", BodyBytes("b1"), b) : b \in Bodies}
        \cup {SignedRequest("P384a", "ES256", "k1", BodyBytes("b1"), BodyBytes("b1"))}

NewWebhookVerifierShared ==
    /\ ~verifier.built
    /\ verifier.err = "nil"
    /\ \E jwks \in SeqsUpTo(ConcurrentJWKs, MaxJWKs) : NewVerifierStep(jwks)
    /\ UNCHANGED <<request, outcome, calls, negVars, appVars>>

\* The *http.Request and body of goroutine g's call.
RequestOf(g) == [present |-> calls[g].present, value |-> calls[g].value]

\* webhook.go:59-82: sig, parts and header from the request.
Begin(g) ==
    /\ verifier.built
    /\ calls[g].pc = "idle"
    /\ \E req \in ConcurrentRequests :
           LET parsed == ParseDetachedJWS([present |-> req.present, value |-> req.value])
               entered == [Idle EXCEPT !.present = req.present, !.value = req.value,
                                       !.body = req.body]
           IN  calls' = [calls EXCEPT ![g] =
                   IF parsed.err # "nil"
                   THEN [entered EXCEPT !.pc = "done", !.outcome = parsed.err]
                   ELSE [entered EXCEPT !.pc = "parsed"]]
    /\ UNCHANGED <<verifier, request, outcome, verHistory, negVars, appVars>>

\* webhook.go:85-88: key, ok := v.keys[header.Kid]
Lookup(g) ==
    /\ calls[g].pc = "parsed"
    /\ LET kid == ParseDetachedJWS(RequestOf(g)).header.kid
       IN  /\ calls' = [calls EXCEPT ![g] =
                  IF kid \in DOMAIN verifier.keys
                  THEN [@ EXCEPT !.pc = "looked", !.key = verifier.keys[kid]]
                  ELSE [@ EXCEPT !.pc = "done", !.outcome = "unknown key ID"]]
           /\ verifier' = [verifier EXCEPT !.keys = KeysAfterLookup(@, kid)]
    /\ UNCHANGED <<request, outcome, verHistory, negVars, appVars>>

\* webhook.go:91-110: the verification with the key that was read.
Finish(g) ==
    /\ calls[g].pc = "looked"
    /\ LET parsed == ParseDetachedJWS(RequestOf(g))
       IN  calls' = [calls EXCEPT ![g] =
               [@ EXCEPT !.pc = "done",
                         !.outcome = VerifyWithKey(parsed.header, calls[g].key,
                                                   parsed.parts, calls[g].body)]]
    /\ UNCHANGED <<verifier, request, outcome, verHistory, negVars, appVars>>

\* The goroutine's caller takes the outcome; the goroutine may call again.
Return(g) ==
    /\ calls[g].pc = "done"
    /\ calls' = [calls EXCEPT ![g] = Idle]
    /\ UNCHANGED <<verifier, request, outcome, verHistory, negVars, appVars>>

ConcurrentNext ==
    \/ NewWebhookVerifierShared
    \/ \E g \in Goroutines : Begin(g)
    \/ \E g \in Goroutines : Lookup(g)
    \/ \E g \in Goroutines : Finish(g)
    \/ \E g \in Goroutines : Return(g)

ConcurrentSpec == Init /\ [][ConcurrentNext]_vars

(***************************************************************************)
(* Repeated verification: a caller keeps its first request and the outcome *)
(* and goes on presenting requests to the same verifier.                   *)
(***************************************************************************)
RepeatRequests ==
    ConcurrentRequests \cup KeyedRequests
        \cup {[present |-> TRUE, value |-> JoinDots(<<EncodeToString(Junk(64))>>),
               body |-> BodyBytes("b1")]}

\* The request just verified is the one that was kept.
SameRequest(req, kept) ==
    /\ req.present = kept.present
    /\ req.value = kept.value
    /\ req.body = kept.body

\* A VerifyRequest call of a caller that keeps its first request and outcome
\* and notes whether it has presented another request since.
VerifyRepeat ==
    /\ verifier.built
    /\ ~request.made
    /\ \E req \in RepeatRequests : VerifyStep(req.present, req.value, req.body)
    /\ verHistory' =
           IF verHistory.made
           THEN [verHistory EXCEPT !.others = @ \/ ~SameRequest(request', verHistory.request)]
           ELSE [verHistory EXCEPT !.made = TRUE, !.request = request',
                                   !.outcome = outcome']
    /\ UNCHANGED <<calls, negVars, appVars>>

RepeatVerifyNext ==
    \/ NewWebhookVerifierShared
    \/ VerifyRepeat
    \/ Respond

RepeatVerifySpec == Init /\ [][RepeatVerifyNext]_vars

(***************************************************************************)
(* Key loading: NewWebhookVerifier on lists that hold a JWK with any       *)
(* combination of key type, curve and present, absent or undecodable       *)
(* members, followed by requests to the verifier it built.                 *)
(***************************************************************************)
KeyTypes == {"EC", "RSA", "oct", ""}
Curves == {"P-256", "P-384", "P-521", "secp256k1", ""}

\* What a base64url member of a JWK may hold: nothing, a string that does not
\* decode, or the encoding of bytes.
MemberTexts(bytes) == {EmptyText, NotBase64, EncodeToString(bytes)}

AnyJWKs ==
    {[Kid |-> "k2", Kty |-> kty, Crv |-> crv, X |-> x, Y |-> y, N |-> n, E |-> e] :
        kty \in KeyTypes, crv \in Curves,
        x \in MemberTexts(KeyPart("x", "P256a")), y \in MemberTexts(KeyPart("y", "P256a")),
        n \in MemberTexts(KeyPart("n", "RSAa")), e \in MemberTexts(ExponentBytes)}

WellFormedJWKs ==
    {PublicJWK("P256a", "k1"), PublicJWK("P384a", "k1"), PublicJWK("RSAa", "k1"),
     PublicJWK("RSAa", "k2")}

\* The list of n JWKs that has any at pos and the JWKs of rest elsewhere.
KeyList(n, pos, any, rest) == [i \in 1..n |-> IF i = pos THEN any ELSE rest[i]]

\* NewWebhookVerifier(jwks), with a note of the list it was given: at most
\* MaxJWKs JWKs of which one is any JWK and the others are well formed.
NewWebhookVerifierFrom ==
    /\ ~verifier.built
    /\ verifier.err = "nil"
    /\ \E n \in 0..MaxJWKs, any \in AnyJWKs :
       \E pos \in (IF n = 0 THEN {0} ELSE 1..n), rest \in [1..n -> WellFormedJWKs] :
           LET jwks == IF n = 0 THEN <<>> ELSE KeyList(n, pos, any, rest)
           IN  /\ verifier' = NewWebhookVerifierOf(jwks)
               /\ verHistory' = [verHistory EXCEPT
                                    !.keys = NewWebhookVerifierOf(jwks).keys,
                                    !.jwks = jwks]
    /\ UNCHANGED <<request, outcome, calls, negVars, appVars>>

\* v.VerifyRequest(r, body) for a request signed under kid "k2".
VerifyRequestKeyed ==
    /\ verifier.built
    /\ ~request.made
    /\ \E req \in KeyedRequests : VerifyStep(req.present, req.value, req.body)
    /\ UNCHANGED <<verHistory, calls, negVars, appVars>>

KeyNext ==
    \/ NewWebhookVerifierFrom
    \/ VerifyRequestKeyed
    \/ Respond

KeySpec == Init /\ [][KeyNext]_vars

(***************************************************************************)
(* Properties of VerifyRequest.  A request is described by the texts its   *)
(* header value was joined from, not by the verifier's own parsing.        *)
(***************************************************************************)
\* The error kinds of the verifier's error taxonomy, by message.
ErrorKind(msg) ==
    CASE msg = "nil" -> "Success"
      [] msg = "missing X-Detached-JWT header" -> "MissingSignature"
      [] msg \in {"invalid JWS format", "failed to decode JWS header",
                  "failed to parse JWS header", "failed to decode signature"}
            -> "InvalidFormat"
      [] msg = "unknown key ID" -> "UnknownKey"
      [] msg \in {"invalid key type for ES256", "invalid key type for RS256"}
            -> "KeyAlgorithmMismatch"
      [] msg = "invalid ES256 signature length" -> "InvalidSignatureLength"
      [] msg = "unsupported algorithm" -> "UnsupportedAlgorithm"
      [] msg = "signature verification failed" -> "SignatureInvalid"
      [] OTHER -> "none"

\* The positions of the "." symbols of the header value.
DotPositions == {i \in 1..Len(request.value) : request.value[i] = Dot}

\* The <<protected header, payload, signature>> texts of a request whose header
\* value has exactly two dots: what stands before, between and after them.
Presented ==
    IF request.made /\ request.present /\ Cardinality(DotPositions) = 2
    THEN LET d1 == CHOOSE i \in DotPositions : \A j \in DotPositions : i <= j
             d2 == CHOOSE i \in DotPositions : \A j \in DotPositions : j <= i
             n  == Len(request.value)
         IN  {<<IF d1 = 1 THEN EmptyText ELSE request.value[1],
                IF d2 = d1 + 1 THEN EmptyText ELSE request.value[d1 + 1],
                IF d2 = n THEN EmptyText ELSE request.value[n]>>}
    ELSE {}

\* The number of dot-separated segments of the header value.
SegmentCount == Cardinality(DotPositions) + 1

\* The verifier holds pair's public key under kid.
Loaded(kid, pair) ==
    /\ verifier.built
    /\ kid \in DOMAIN verifier.keys
    /\ verifier.keys[kid] = PublicKeyOf(pair)

\* The algorithm a signer with this key pair names in the protected header.
SignerAlg(pair) ==
    CASE PairKty(pair) = "RSA" -> "RS256"
      [] PairCrv(pair) = "P-256" -> "ES256"
      [] OTHER -> "ES384"

\* The protected header a signer with pair, published under kid, sends.
SignerHeader(pair, kid) == EncodeToString(JSONHeader(SignerAlg(pair), kid))

\* Every signature pair's private key can make over a signing input.
ValidSignatures(pair, signingInput) ==
    {Sign(pair, signingInput, n) : n \in Nonces(pair)}

\* The request presents header h, made by signing some body B with pair, with
\* another body, or with signature bytes other than the ones produced.
TamperedAtAll(pair, h, sigBytes) ==
    \E B \in Bodies, n \in Nonces(pair) :
        LET produced == Sign(pair, <<h, EncodeToString(B)>>, n)
        IN  \/ request.body # B /\ sigBytes = produced
            \/ request.body = B /\ sigBytes # produced

\* The same, leaving out bytes that are themselves a signature pair's private
\* key makes over the same signing input.
Tampered(pair, h, sigBytes) ==
    \E B \in Bodies, n \in Nonces(pair) :
        LET produced == Sign(pair, <<h, EncodeToString(B)>>, n)
        IN  \/ request.body # B /\ sigBytes = produced
            \/ /\ request.body = B
               /\ sigBytes \notin ValidSignatures(pair, <<h, EncodeToString(B)>>)

\* C2 as stated: a request whose header was produced by signing a body under a
\* loaded key, presented with another body or with other signature bytes,
\* fails with SignatureInvalid.
C2_TamperedFailsSignatureInvalid ==
    \A t \in Presented, pair \in {"P256a", "P256b", "RSAa"}, kid \in Kids :
        (/\ Loaded(kid, pair)
         /\ t[1] = SignerHeader(pair, kid)
         /\ t[3].enc = "b64"
         /\ TamperedAtAll(pair, t[1], t[3].bytes))
            => ErrorKind(outcome) = "SignatureInvalid"

\* C2 as amended: such a request, presented with another body or with bytes
\* that are no signature of the key over the signing input, is never accepted;
\* when alg goes with the key's type (ES256 and an EC key, RS256 and an RSA
\* key) it fails with SignatureInvalid, or with InvalidSignatureLength when
\* alg is ES256 and the signature is not 64 bytes long.
C2_TamperedNeverAccepted ==
    \A t \in Presented, pair \in KeyPairs, kid \in Kids, alg \in Algs :
        (/\ Loaded(kid, pair)
         /\ t[1] = EncodeToString(JSONHeader(alg, kid))
         /\ t[3].enc = "b64"
         /\ Tampered(pair, t[1], t[3].bytes))
            => /\ outcome # "nil"
               /\ (alg = "ES256" /\ PairKty(pair) = "EC")
                      => ErrorKind(outcome) =
                            IF ByteLen(t[3].bytes) = 64 THEN "SignatureInvalid"
                            ELSE "InvalidSignatureLength"
               /\ (alg = "RS256" /\ PairKty(pair) = "RSA")
                      => ErrorKind(outcome) = "SignatureInvalid"

\* C2 witness: the signature made over body b1, presented with body b2, is
\* rejected as invalid.
C2_Witness ==
    \E t \in Presented, kid \in Kids :
        /\ Loaded(kid, "P256a")
        /\ t[1] = SignerHeader("P256a", kid)
        /\ t[3] = EncodeToString(Sign("P256a", <<t[1], EncodeToString(BodyBytes("b1"))>>, 1))
        /\ request.body = BodyBytes("b2")
        /\ outcome = "signature verification failed"

\* The request is what a signer with pair, published under kid, sends for the
\* body it carries.
SignedBy(pair, kid, t) ==
    /\ t[1] = SignerHeader(pair, kid)
    /\ t[3].enc = "b64"
    /\ t[3].bytes \in ValidSignatures(pair, <<t[1], EncodeToString(request.body)>>)

\* C3 as stated: with any EC or RSA key pair loaded from its public JWK, the
\* request its holder signs is accepted.
C3_RoundTripAnyKeyPair ==
    \A t \in Presented, pair \in KeyPairs, kid \in Kids :
        (Loaded(kid, pair) /\ SignedBy(pair, kid, t)) => outcome = "nil"

\* C3 as amended: with a P-256 EC key pair (alg ES256) or an RSA key pair (alg
\* RS256) loaded from its public JWK, the request its holder signs is accepted.
C3_RoundTripP256OrRSA ==
    \A t \in Presented, pair \in KeyPairs, kid \in Kids :
        (/\ Loaded(kid, pair)
         /\ SignedBy(pair, kid, t)
         /\ (PairKty(pair) = "RSA" \/ PairCrv(pair) = "P-256"))
            => outcome = "nil"

\* C3 witness: an RSA-signed request with an empty payload segment is accepted.
C3_Witness ==
    \E t \in Presented, kid \in Kids :
        /\ Loaded(kid, "RSAa")
        /\ SignedBy("RSAa", kid, t)
        /\ t[2] = EmptyText
        /\ outcome = "nil"

\* C4: a three-segment header whose first segment is a JSON header naming a
\* kid the verifier does not hold fails with UnknownKey, whatever alg and the
\* signature segment are.
C4_UnknownKid ==
    \A t \in Presented :
        (/\ t[1].enc = "b64"
         /\ t[1].bytes.typ = "json"
         /\ t[1].bytes.kid \notin DOMAIN verifier.keys)
            => ErrorKind(outcome) = "UnknownKey"

\* C4 witness: an unknown kid with a signature segment that is not base64url.
C4_Witness ==
    \E t \in Presented :
        /\ t[1] = EncodeToString(JSONHeader("RS256", "k2"))
        /\ "k2" \notin DOMAIN verifier.keys
        /\ "k1" \in DOMAIN verifier.keys
        /\ t[3] = NotBase64
        /\ outcome = "unknown key ID"

\* alg does not go with the type of the key held under the header's kid.
AlgKeyMismatch(t) ==
    /\ t[1].enc = "b64"
    /\ t[1].bytes.typ = "json"
    /\ t[1].bytes.kid \in DOMAIN verifier.keys
    /\ \/ t[1].bytes.alg = "ES256" /\ verifier.keys[t[1].bytes.kid].Kty = "RSA"
       \/ t[1].bytes.alg = "RS256" /\ verifier.keys[t[1].bytes.kid].Kty = "EC"

\* C5 as stated: ES256 with an RSA key, or RS256 with an EC key, fails with
\* KeyAlgorithmMismatch.
C5_MismatchAlways ==
    \A t \in Presented :
        AlgKeyMismatch(t) => ErrorKind(outcome) = "KeyAlgorithmMismatch"

\* C5 as amended: it fails with KeyAlgorithmMismatch when the signature segment
\* is base64url, and with InvalidFormat when it is not; in neither case is a
\* result of cryptographic verification reported.
C5_MismatchWhenSignatureDecodes ==
    \A t \in Presented :
        AlgKeyMismatch(t) =>
            /\ ErrorKind(outcome) =
                   IF t[3].enc = "b64" THEN "KeyAlgorithmMismatch" ELSE "InvalidFormat"
            /\ ErrorKind(outcome) \notin {"Success", "SignatureInvalid"}

\* C5 witness: ES256 with an RSA key and a 63-byte signature is a key
\* mismatch, not a length error.
C5_Witness ==
    \E t \in Presented :
        /\ AlgKeyMismatch(t)
        /\ t[1].bytes.alg = "ES256"
        /\ t[3] = EncodeToString(Junk(63))
        /\ outcome = "invalid key type for ES256"

\* C6: an absent or empty header fails with MissingSignature; a non-empty
\* header value without exactly three segments fails with InvalidFormat.
C6_MalformedHeader ==
    request.made =>
        /\ (~request.present \/ request.value = <<>>)
               => ErrorKind(outcome) = "MissingSignature"
        /\ (request.present /\ request.value # <<>> /\ SegmentCount # 3)
               => outcome = "invalid JWS format"

\* C6 witness: four segments, the first a header whose kid the verifier holds.
C6_Witness ==
    /\ request.made
    /\ request.present
    /\ SegmentCount = 4
    /\ request.value[1] = EncodeToString(JSONHeader("ES256", "k1"))
    /\ "k1" \in DOMAIN verifier.keys
    /\ outcome = "invalid JWS format"

C16_OtherAlgUnsupported ==
    /\ outcome = "nil" =>
           \E t \in Presented :
               /\ t[1].enc = "b64"
               /\ t[1].bytes.typ = "json"
               /\ t[1].bytes.alg \in {"ES256", "RS256"}
    /\ \A t \in Presented :
           (/\ t[1].enc = "b64"
            /\ t[1].bytes.typ = "json"
            /\ t[1].bytes.kid \in DOMAIN verifier.keys
            /\ t[1].bytes.alg \notin {"ES256", "RS256"}
            /\ t[3].enc = "b64")
               => ErrorKind(outcome) = "UnsupportedAlgorithm"

\* C16 witness: alg "none" with a signature that the key held under kid made
\* over this header and body is rejected as unsupported.
C16_Witness ==
    \E t \in Presented, kid \in Kids :
        /\ Loaded(kid, "P256a")
        /\ t[1] = EncodeToString(JSONHeader("none", kid))
        /\ t[3] = EncodeToString(Sign("P256a", <<t[1], EncodeToString(request.body)>>, 1))
        /\ outcome = "unsupported algorithm"

(***************************************************************************)
(* Properties of NewWebhookVerifier.  A JWK is described by its members,   *)
(* not by the conversion's own tests.                                      *)
(***************************************************************************)
\* The error kinds of key loading, by message.
KeyErrorKind(msg) ==
    CASE msg = "nil" -> "Success"
      [] msg = "unsupported key type" -> "UnsupportedKeyType"
      [] msg = "unsupported curve" -> "UnsupportedCurve"
      [] msg \in {"missing EC key coordinates", "failed to decode X coordinate",
                  "failed to decode Y coordinate", "missing RSA key components",
                  "failed to decode N", "failed to decode E"} -> "MalformedKey"
      [] OTHER -> "none"

\* A member that is present and decodes.
Decodable(text) == text.enc = "b64" /\ text.bytes.typ # "empty"

\* What loading a JWK must give by its members: "Success" or the error kind.
Expected(jwk) ==
    CASE jwk.Kty = "EC" ->
            IF ~(Decodable(jwk.X) /\ Decodable(jwk.Y)) THEN "MalformedKey"
            ELSE IF jwk.Crv \notin {"P-256", "P-384", "P-521"} THEN "UnsupportedCurve"
            ELSE "Success"
      [] jwk.Kty = "RSA" ->
            IF ~(Decodable(jwk.N) /\ Decodable(jwk.E)) THEN "MalformedKey" ELSE "Success"
      [] OTHER -> "UnsupportedKeyType"

\* NewWebhookVerifier has been called.
Constructed == verifier.built \/ verifier.err # "nil"
\* The JWKs of the list that must fail to load.
Failing == {i \in 1..Len(verHistory.jwks) : Expected(verHistory.jwks[i]) # "Success"}

\* C17: NewWebhookVerifier fails with the error kind of the first JWK of its
\* list that must not load (UnsupportedKeyType, MalformedKey or
\* UnsupportedCurve, by its members), and builds a verifier when every JWK
\* must load.
C17_KeyLoadingErrors ==
    Constructed =>
        IF Failing = {}
        THEN verifier.built
        ELSE LET first == CHOOSE i \in Failing : \A j \in Failing : i <= j
             IN  /\ ~verifier.built
                 /\ KeyErrorKind(verifier.err) = Expected(verHistory.jwks[first])

\* C17 witness: an EC JWK whose x does not decode and whose crv is empty,
\* after a well-formed JWK, fails as a malformed key.
C17_Witness ==
    /\ ~verifier.built
    /\ Len(verHistory.jwks) = 2
    /\ verHistory.jwks[1] \in WellFormedJWKs
    /\ verHistory.jwks[2].Kty = "EC"
    /\ verHistory.jwks[2].X = NotBase64
    /\ verHistory.jwks[2].Y.enc = "b64"
    /\ verHistory.jwks[2].Crv = ""
    /\ verifier.err = "failed to decode X coordinate"

C19_ES256OnlyOnP256 ==
    \A t \in Presented :
        (/\ t[1].enc = "b64"
         /\ t[1].bytes.typ = "json"
         /\ t[1].bytes.alg = "ES256")
            => /\ outcome = "nil" =>
                      /\ t[1].bytes.kid \in DOMAIN verifier.keys
                      /\ verifier.keys[t[1].bytes.kid].Kty = "EC"
                      /\ verifier.keys[t[1].bytes.kid].Curve = "P-256"
               /\ (/\ t[1].bytes.kid \in DOMAIN verifier.keys
                   /\ verifier.keys[t[1].bytes.kid].Kty = "EC"
                   /\ verifier.keys[t[1].bytes.kid].Curve \in {"P-384", "P-521"})
                      => outcome # "nil"

\* C19 witness: the P-384 pair's own signature over the request, labelled
\* ES256 and presented to a verifier that holds the pair's P-384 key, is
\* rejected.
C19_Witness ==
    \E t \in Presented :
        /\ Loaded("k1", "P384a")
        /\ t[1] = EncodeToString(JSONHeader("ES256", "k1"))
        /\ t[3] = EncodeToString(Sign("P384a", <<t[1], EncodeToString(request.body)>>, 1))
        /\ outcome = "invalid ES256 signature length"

\* C20: every JWK a built verifier was loaded from has exactly one of the
\* pairs (x, y) and (n, e) present and decodable, the pair of its kty: the EC
\* pair and no RSA member for EC, the RSA pair and no EC member for RSA.
C20_ExactlyOnePair ==
    verifier.built =>
        \A i \in 1..Len(verHistory.jwks) :
            LET jwk == verHistory.jwks[i]
                ecPair == Decodable(jwk.X) /\ Decodable(jwk.Y)
                rsaPair == Decodable(jwk.N) /\ Decodable(jwk.E)
            IN  /\ jwk.Kty = "EC" => ecPair /\ ~rsaPair
                /\ jwk.Kty = "RSA" => rsaPair /\ ~ecPair
                /\ jwk.Kty \in {"EC", "RSA"}

\* C21: the outcome of a three-segment header value is the outcome of every
\* header value that differs from it in the middle segment only, for the same
\* body and verifier.
C21_PayloadSegmentIgnored ==
    \A t \in Presented, m \in PayloadTexts :
        VerifyRequest(verifier.keys,
                      [present |-> TRUE, value |-> JoinDots(<<t[1], m, t[3]>>)],
                      request.body) = outcome

\* C21 witness: a signed request is accepted although its middle segment is
\* not even base64url.
C21_Witness ==
    \E t \in Presented, kid \in Kids :
        /\ Loaded(kid, "P256a")
        /\ SignedBy("P256a", kid, t)
        /\ t[2] = NotBase64
        /\ outcome = "nil"

\* The request names ES256 and a kid the verifier holds, and its signature
\* segment decodes.
ES256Reached(t) ==
    /\ t[1].enc = "b64"
    /\ t[1].bytes.typ = "json"
    /\ t[1].bytes.alg = "ES256"
    /\ t[1].bytes.kid \in DOMAIN verifier.keys
    /\ t[3].enc = "b64"

\* C22: for ES256 a key that is not an EC key gives KeyAlgorithmMismatch
\* whatever the signature's length; with an EC key a signature that is not 64
\* bytes long gives InvalidSignatureLength; a 64-byte signature is accepted or
\* gives SignatureInvalid, the latter whenever it is no signature of the held
\* key over the header segment and the body.
C22_ES256CheckOrder ==
    \A t \in Presented :
        ES256Reached(t) =>
            LET key == verifier.keys[t[1].bytes.kid]
                signingInput == <<t[1], EncodeToString(request.body)>>
                genuine == \E pair \in KeyPairs :
                               /\ PublicKeyOf(pair) = key
                               /\ t[3].bytes \in ValidSignatures(pair, signingInput)
            IN  /\ key.Kty # "EC" => ErrorKind(outcome) = "KeyAlgorithmMismatch"
                /\ (key.Kty = "EC" /\ ByteLen(t[3].bytes) # 64)
                       => ErrorKind(outcome) = "InvalidSignatureLength"
                /\ (key.Kty = "EC" /\ ByteLen(t[3].bytes) = 64)
                       => ErrorKind(outcome) =
                              IF genuine THEN "Success" ELSE "SignatureInvalid"

\* C22 witness: with an EC key held, the 256-byte signature the RSA pair made
\* over this request fails on its length.
C22_Witness ==
    \E t \in Presented :
        /\ ES256Reached(t)
        /\ verifier.keys[t[1].bytes.kid].Kty = "EC"
        /\ t[3] = EncodeToString(Sign("RSAa", <<t[1], EncodeToString(request.body)>>, 1))
        /\ outcome = "invalid ES256 signature length"

\* The positions of the list that carry a kid.
Carrying(kid) == {i \in 1..Len(verHistory.jwks) : verHistory.jwks[i].Kid = kid}

Permuted(seq, f) == [i \in 1..Len(seq) |-> seq[f[i]]]

\* Two outcomes of Negotiate that both returned, with the same Success and
\* NegotiatedVersion and the same members in each of the three lists.
SameUpToOrder(a, b) ==
    /\ ~a.panicked /\ ~b.panicked
    /\ a.result.Success = b.result.Success
    /\ a.result.NegotiatedVersion = b.result.NegotiatedVersion
    /\ Range(a.result.CommonCapabilities) = Range(b.result.CommonCapabilities)
    /\ Range(a.result.MissingRequired) = Range(b.result.MissingRequired)
    /\ Range(a.result.VersionMismatches) = Range(b.result.VersionMismatches)

\* C24: a negotiator built from any rearrangement of the platform list
\* returns, for the same business profile and required names, the same
\* Success and NegotiatedVersion and the same members of CommonCapabilities,
\* MissingRequired and VersionMismatches.
C24_PlatformOrderIndependent ==
    Returned =>
        \A f \in Permutations(1..Len(platformCaps)) :
            SameUpToOrder([panicked |-> FALSE, result |-> result],
                          Negotiate(Permuted(platformCaps, f), negCall.businessProfile,
                                    requiredNames))

\* The matched platform entries that are not compatible.
IncompatibleEntries == Matched \ CompatibleEntries

\* C25: a platform entry whose name no business capability has adds nothing
\* to CommonCapabilities or VersionMismatches and, with nothing required and
\* nothing mismatched, leaves Success true; every other platform entry adds
\* one entry to exactly one of the two lists, in list order, so their sizes
\* add up to the number of matched platform entries.
C25_EachPlatformEntryInOneCase ==
    Returned =>
        /\ Len(result.CommonCapabilities) + Len(result.VersionMismatches)
               = Cardinality(Matched)
        /\ Len(result.CommonCapabilities) = Cardinality(CompatibleEntries)
        /\ \A i \in CompatibleEntries :
               result.CommonCapabilities[Cardinality({j \in CompatibleEntries : j <= i})].Name
                   = platformCaps[i].Name
        /\ \A i \in IncompatibleEntries :
               LET mm == result.VersionMismatches[
                             Cardinality({j \in IncompatibleEntries : j <= i})]
               IN  /\ mm.Capability = platformCaps[i].Name
                   /\ mm.PlatformVersion = platformCaps[i].Version
        /\ \A k \in 1..Len(result.CommonCapabilities) :
               DeclaredByBusiness(result.CommonCapabilities[k].Name)
        /\ \A k \in 1..Len(result.VersionMismatches) :
               DeclaredByBusiness(result.VersionMismatches[k].Capability)
        /\ (IncompatibleEntries = {} /\ requiredNames = <<>>) => result.Success

\* C25 witness: three platform entries, one in each case, and a failure that
\* the unmatched one has no part in.
C25_Witness ==
    /\ Returned
    /\ Len(platformCaps) = 3
    /\ Cardinality(Matched) = 2
    /\ Len(result.CommonCapabilities) = 1
    /\ Len(result.VersionMismatches) = 1
    /\ requiredNames = <<>>
    /\ ~result.Success

\* The positions of the business list that no later entry of the same name
\* follows, and the list with only those entries left.
LastOfName == {j \in 1..Len(businessList) :
                  \A k \in (j + 1)..Len(businessList) :
                      businessList[k].Name # businessList[j].Name}
WithoutEarlierDuplicates ==
    [k \in 1..Cardinality(LastOfName) |->
        businessList[CHOOSE j \in LastOfName :
                         Cardinality({i \in LastOfName : i <= j}) = k]]

\* C26: the call ends as it would with the earlier entries of every repeated
\* business name taken out of the profile: it returns the same result, with
\* every mismatch naming the version of the last business entry of its name,
\* and it fails to return only where that call fails to return too.
C26_LastBusinessEntryWins ==
    negCall.made =>
        LET alone == Negotiate(negCall.platformBefore,
                               Profile(negCall.businessProfile.UCP.Version,
                                       WithoutEarlierDuplicates),
                               requiredNames)
        IN  /\ alone.panicked <=> ~Returned
            /\ Returned => alone.result = result
            /\ Returned =>
                   \A k \in 1..Len(result.VersionMismatches) :
                       result.VersionMismatches[k].BusinessVersion =
                           IndexedBusinessCap(result.VersionMismatches[k].Capability).Version

\* C26 witness: the business lists a name twice, first at a version the
\* platform's entry is compatible with and last at one it is not, and the
\* entry is a mismatch against the last.
C26_Witness ==
    /\ Returned
    /\ Len(businessList) = 2
    /\ businessList[1].Name = businessList[2].Name
    /\ businessList[1].Version = V_2026_01_01
    /\ businessList[2].Version = V_2025_12_31
    /\ Len(platformCaps) = 1
    /\ platformCaps[1].Name = businessList[1].Name
    /\ platformCaps[1].Version = V_2026_06_30
    /\ result.CommonCapabilities = <<>>
    /\ Len(result.VersionMismatches) = 1
    /\ result.VersionMismatches[1].BusinessVersion = V_2025_12_31

\* The names of the recorded version mismatches.
MismatchedNames ==
    {result.VersionMismatches[k].Capability : k \in 1..Len(result.VersionMismatches)}

\* C27: a required name whose matched platform entries are all incompatible
\* is in VersionMismatches and in MissingRequired; a name with an
\* incompatible entry that is not required is in VersionMismatches, not in
\* MissingRequired, and Success is false all the same.
C27_RequiredMismatchReportedTwice ==
    Returned =>
        \A i \in IncompatibleEntries :
            LET name == platformCaps[i].Name
            IN  /\ name \in MismatchedNames
                /\ ~result.Success
                /\ (/\ name \in Range(requiredNames)
                    /\ \A j \in CompatibleEntries : platformCaps[j].Name # name)
                       => name \in Range(result.MissingRequired)
                /\ name \notin Range(requiredNames)
                       => name \notin Range(result.MissingRequired)

\* C27 witness: one name is required and mismatched, and reported in both
\* lists, and the negotiation fails.
C27_Witness ==
    /\ Returned
    /\ Len(requiredNames) = 1
    /\ requiredNames[1] \in MismatchedNames
    /\ Range(result.MissingRequired) = {requiredNames[1]}
    /\ ~result.Success

(***************************************************************************)
(* server.APIKeyMiddleware and server.BearerTokenMiddleware.  A header     *)
(* value is the sequence of its characters, so that auth[:7] and auth[7:]  *)
(* are computed.  What the middleware does with a request is               *)
(* [next, written]: whether next.ServeHTTP was called, and the WriteError  *)
(* calls it made, each [status, code].                                     *)
(***************************************************************************)
DiscoveryPath == "/.well-known/ucp"

PassedOn == [next |-> TRUE, written |-> <<>>]
WriteError(statusCode, code) ==
    [next |-> FALSE, written |-> <<[status |-> statusCode, code |-> code]>>]

\* validKeys[apiKey]: false for a key the map does not have.
ValidKey(validKeys, apiKey) ==
    IF apiKey \in DOMAIN validKeys THEN validKeys[apiKey] ELSE FALSE

\* The handler APIKeyMiddleware(validKeys)(next), serving r.
APIKeyServe(validKeys, r) ==
    IF r.path = DiscoveryPath THEN PassedOn
    ELSE LET apiKey == HeaderGet(r.header)
         IN  IF apiKey = <<>> THEN WriteError(401, "missing_api_key")
             ELSE IF ~ValidKey(validKeys, apiKey) THEN WriteError(401, "invalid_api_key")
             ELSE PassedOn

BearerPrefix == <<"B", "e", "a", "r", "e", "r", " ">>

\* The validator's verdict taken without looking at its error.
TokenAcceptedErrorIgnored(validator, token) ==
    IF validator[token].valid THEN PassedOn ELSE WriteError(401, "invalid_token")

\* valid, err := validator(token), and the two tests that follow.
TokenAccepted(validator, token) ==
    IF validator[token].err THEN WriteError(500, "auth_error")
    ELSE IF ~validator[token].valid THEN WriteError(401, "invalid_token")
    ELSE PassedOn

\* The handler BearerTokenMiddleware(validator)(next), serving r.
BearerServe(validator, r) ==
    IF r.path = DiscoveryPath THEN PassedOn
    ELSE LET auth == HeaderGet(r.header)
         IN  IF auth = <<>> THEN WriteError(401, "missing_authorization")
             ELSE IF Len(auth) < 7 \/ SubSeq(auth, 1, 7) # BearerPrefix
                  THEN WriteError(401, "invalid_authorization")
             ELSE TokenAccepted(validator, SubSeq(auth, 8, Len(auth)))

\* The requests: paths at and around the discovery endpoint, and the header
\* absent, empty, or holding a value.
Paths == {DiscoveryPath, "/.well-known/ucp/", "/.well-known", "/checkout-sessions"}
HeadersOf(values) ==
    {[present |-> FALSE, value |-> <<>>]} \cup {[present |-> TRUE, value |-> v] : v \in values}

\* The maps a caller may pass as validKeys: any keys, the empty string among
\* them, each marked true or false.
ValidKeyMaps ==
    [{<<>>, <<"k", "a">>, <<"k", "b">>} -> {"absent", "true", "false"}]
ValidKeysOf(m) ==
    [k \in {x \in DOMAIN m : m[x] # "absent"} |-> m[k] = "true"]
APIKeyValues == {<<>>, <<"k", "a">>, <<"k", "b">>, <<"k", "c">>}

Tokens == {<<>>, <<"t", "a">>, <<"t", "b">>}
\* What a validator may return for a token: (valid, err # nil).
Verdicts == [valid : BOOLEAN, err : BOOLEAN]
AuthorizationValues ==
    {BearerPrefix \o t : t \in Tokens}
        \cup {<<>>,
              <<"B", "e", "a", "r", "e", "r">>,
              <<"b", "e", "a", "r", "e", "r", " ">> \o <<"t", "a">>,
              <<"B", "e", "a", "r", "e", "r", "t", "a">>,
              <<"B", "a", "s", "i", "c", " ">> \o <<"t", "a">>,
              <<"t", "a">>}

\* APIKeyMiddleware(validKeys)(next)
APIKeyMiddleware ==
    /\ handler.kind = "none"
    /\ \E m \in ValidKeyMaps :
           handler' = [handler EXCEPT !.kind = "apikey", !.validKeys = ValidKeysOf(m)]
    /\ UNCHANGED <<client, store, negVars, verVars>>

\* BearerTokenMiddleware(validator)(next)
BearerTokenMiddleware ==
    /\ handler.kind = "none"
    /\ \E validator \in [Tokens -> Verdicts] :
           handler' = [handler EXCEPT !.kind = "bearer", !.validator = validator]
    /\ UNCHANGED <<client, store, negVars, verVars>>

\* The returned handler's ServeHTTP(w, r) for one request.
ServeHTTP ==
    /\ handler.kind # "none"
    /\ ~handler.served
    /\ \E path \in Paths,
          header \in HeadersOf(IF handler.kind = "apikey" THEN APIKeyValues
                                ELSE AuthorizationValues) :
           LET r == [path |-> path, header |-> header]
               did == IF handler.kind = "apikey" THEN APIKeyServe(handler.validKeys, r)
                      ELSE BearerServe(handler.validator, r)
           IN  handler' = [handler EXCEPT !.served = TRUE, !.path = path,
                                          !.header = header,
                                          !.nextCalls = IF did.next THEN 1 ELSE 0,
                                          !.written = did.written]
    /\ UNCHANGED <<client, store, negVars, verVars>>

MiddlewareNext ==
    \/ APIKeyMiddleware
    \/ BearerTokenMiddleware
    \/ ServeHTTP

MiddlewareSpec == Init /\ [][MiddlewareNext]_vars

\* The request's credential is valid: its X-API-Key is present, not empty
\* and marked true in validKeys, or its Authorization is "Bearer " followed
\* by a token for which the validator returns true and no error.
CredentialValid ==
    /\ handler.header.present
    /\ \/ /\ handler.kind = "apikey"
          /\ handler.header.value # <<>>
          /\ handler.header.value \in DOMAIN handler.validKeys
          /\ handler.validKeys[handler.header.value]
       \/ /\ handler.kind = "bearer"
          /\ \E token \in Tokens :
                 /\ handler.header.value = BearerPrefix \o token
                 /\ handler.validator[token] = [valid |-> TRUE, err |-> FALSE]

\* C28: a served request reached the wrapped handler exactly when its path is
\* /.well-known/ucp or its credential is valid; when it did not, one error
\* response with a 4xx or 5xx status was written, and when it did, the
\* middleware wrote nothing.
C28_NextOnlyForDiscoveryOrValidCredential ==
    handler.served =>
        /\ (handler.nextCalls > 0) <=> (handler.path = DiscoveryPath \/ CredentialValid)
        /\ handler.nextCalls = 0 =>
               /\ Len(handler.written) = 1
               /\ handler.written[1].status >= 400
        /\ handler.nextCalls > 0 => handler.written = <<>>

\* C28 witness: a token the validator calls valid while returning an error
\* is answered with the 500 response and does not reach the wrapped handler.
C28_Witness ==
    /\ handler.served
    /\ handler.kind = "bearer"
    /\ handler.path = "/checkout-sessions"
    /\ handler.header.value = BearerPrefix \o <<"t", "a">>
    /\ handler.validator[<<"t", "a">>] = [valid |-> TRUE, err |-> TRUE]
    /\ handler.nextCalls = 0
    /\ handler.written = <<[status |-> 500, code |-> "auth_error"]>>

(***************************************************************************)
(* internal.RetryableClient.  Do is split at its calls of c.client.Do, the *)
(* only steps whose result the code does not determine.  The loop counter  *)
(* i is a Go int: it is kept at a width of IntBits bits, and maxRetries    *)
(* ranges over every int of that width.                                    *)
(***************************************************************************)
IntBits == 3
MinInt == -(2 ^ (IntBits - 1))
MaxInt == 2 ^ (IntBits - 1) - 1
\* The int that n is stored as.
WrapInt(n) == ((n - MinInt) % (2 ^ IntBits)) + MinInt

\* What c.client.Do(req) may return: an error and no response, or a response
\* with a status code.
TransportError == [kind |-> "transport", StatusCode |-> 0]
ServerError(statusCode) == [kind |-> "ServerError", StatusCode |-> statusCode]
Response(statusCode) == [nil |-> FALSE, StatusCode |-> statusCode]
StatusCodes == {200, 404, 499, 500, 503}
ClientDoResults ==
    {[resp |-> NilResponse, err |-> TransportError]}
        \cup {[resp |-> Response(code), err |-> NilError] : code \in StatusCodes}

\* The number of calls of c.client.Do is counted up to here.
AttemptsCounted == 2 ^ IntBits + 1
CountUp(n) == IF n < AttemptsCounted THEN n + 1 ELSE n

\* NewRetryableClient(client, maxRetries, backoff)
NewRetryableClient ==
    /\ ~client.built
    /\ \E maxRetries \in MinInt..MaxInt :
           client' = [client EXCEPT !.built = TRUE, !.maxRetries = maxRetries]
    /\ UNCHANGED <<handler, store, negVars, verVars>>

\* c.Do(req) is called: var lastErr error; i := 0.
DoCall ==
    /\ client.built
    /\ client.pc = "idle"
    /\ client' = [client EXCEPT !.pc = "loop", !.i = 0, !.lastErr = NilError]
    /\ UNCHANGED <<handler, store, negVars, verVars>>

\* i <= c.maxRetries
LoopContinues(c) == c.i <= c.maxRetries

\* One iteration of the loop: c.client.Do(req), then continue with i++ after
\* an error or a status >= 500, or return resp, nil.
DoAttempt ==
    /\ client.pc = "loop"
    /\ LoopContinues(client)
    /\ \E r \in ClientDoResults :
           LET counted == [client EXCEPT !.attempts = CountUp(@), !.last = r]
           IN  IF r.err # NilError
               THEN client' = [counted EXCEPT !.lastErr = r.err, !.i = WrapInt(@ + 1)]
               ELSE IF r.resp.StatusCode >= 500
               THEN client' = [counted EXCEPT !.lastErr = ServerError(r.resp.StatusCode),
                                              !.i = WrapInt(@ + 1)]
               ELSE client' = [counted EXCEPT !.pc = "returned", !.resp = r.resp,
                                              !.err = NilError, !.passed = @ + 1]
    /\ UNCHANGED <<handler, store, negVars, verVars>>

\* The loop ends: return nil, lastErr.
DoReturn ==
    /\ client.pc = "loop"
    /\ ~LoopContinues(client)
    /\ client' = [client EXCEPT !.pc = "returned", !.resp = NilResponse,
                                !.err = client.lastErr]
    /\ UNCHANGED <<handler, store, negVars, verVars>>

RetryNext ==
    \/ NewRetryableClient
    \/ DoCall
    \/ DoAttempt
    \/ DoReturn

RetrySpec == Init /\ [][RetryNext]_vars

\* The error an attempt that failed stands for.
ErrorOf(r) ==
    IF r.err # NilError THEN r.err ELSE ServerError(r.resp.StatusCode)

\* C29: Do never makes more than maxRetries + 1 attempts (none when that is
\* not positive); when it has
\* returned, either its response is that of its last attempt, the only one
\* with a status below 500, and its error is nil, or its response is nil and
\* its error is the error of its last attempt and is not nil.
C29_DoReturnsResponseOrLastError ==
    /\ client.pc # "idle" =>
           client.attempts <= (IF client.maxRetries + 1 > 0 THEN client.maxRetries + 1 ELSE 0)
    /\ client.pc = "returned" =>
           \/ /\ ~client.resp.nil
              /\ client.resp = client.last.resp
              /\ client.resp.StatusCode < 500
              /\ client.passed = 1
              /\ client.err = NilError
           \/ /\ client.resp.nil
              /\ client.passed = 0
              /\ client.attempts > 0
              /\ client.err = ErrorOf(client.last)
              /\ client.err # NilError

(***************************************************************************)
(* The checkout handlers of examples/business_server/main.go.  Each        *)
(* handler holds mu for its whole body, so a request is one action.  An    *)
(* id is <<prefix, n>> for the string "prefix-n".  store.checkouts and     *)
(* store.orders are the two maps, store.err the error the last handler     *)
(* returned; store.closed notes, for every checkout that was ever          *)
(* completed or canceled, the first such status it had, and an order       *)
(* notes the status its checkout had when the order was created.           *)
(***************************************************************************)
\* The ids generateID hands out in one run.
MaxIDs == 3

\* generateID(prefix) with idCounter at counter.
generateID(prefix, counter) == <<prefix, counter + 1>>

NoBuyer == [nil |-> TRUE, Email |-> ""]
Buyer(email) == [nil |-> FALSE, Email |-> email]

\* The checkout handleCreateCheckout stores.
NewCheckout(checkoutID) ==
    [ID |-> checkoutID, Status |-> "incomplete", Buyer |-> NoBuyer,
     SelectedInstrumentID |-> "", Order |-> <<>>]

\* The create requests: no line item, or one of a known or unknown product.
CreateRequests == {"no items", "known product", "unknown product"}

\* The update requests: req.Buyer nil or with an email or none, the number
\* of fulfillment destinations, req.Payment.SelectedInstrumentID.
UpdateRequests ==
    [Buyer : {NoBuyer, Buyer(""), Buyer("buyer@example.com")},
     Destinations : {0, 1},
     SelectedInstrumentID : {"", "card-1"}]

\* The ids a request may name: a stored checkout's, or one never handed out.
UnknownID == <<"chk", 0>>
RequestIDs == DOMAIN store.checkouts \cup {UnknownID}

\* store.closed once the checkout id has the status it has in checkouts.
Noted(closed, id, status) ==
    IF status \in {"completed", "canceled"} /\ id \notin DOMAIN closed
    THEN MapPut(closed, id, status)
    ELSE closed

\* handleCreateCheckout(r, req)
handleCreateCheckout ==
    \E req \in CreateRequests :
        LET ids == IF req = "known product" THEN 2 ELSE 1
            checkoutID == generateID("chk", store.idCounter)
        IN  /\ store.idCounter + ids <= MaxIDs
            /\ store' =
                   IF req = "unknown product"
                   THEN [store EXCEPT !.idCounter = @ + ids, !.err = "unknown product"]
                   ELSE [store EXCEPT !.idCounter = @ + ids, !.err = "nil",
                                      !.checkouts = MapPut(@, checkoutID,
                                                           NewCheckout(checkoutID))]
            /\ UNCHANGED <<handler, client, negVars, verVars>>

\* "Update status based on completeness": a message for a missing email and
\* one for a missing payment; ready_for_complete when there is none.
StatusAfterUpdate(checkout, updated) ==
    LET emailRequired == updated.Buyer.nil \/ updated.Buyer.Email = ""
        paymentRequired == updated.SelectedInstrumentID = ""
        messages == (IF emailRequired THEN 1 ELSE 0) + (IF paymentRequired THEN 1 ELSE 0)
    IN  IF messages = 0 THEN "ready_for_complete" ELSE "incomplete"

\* handleUpdateCheckout(r, id, req)
handleUpdateCheckout ==
    \E id \in RequestIDs, req \in UpdateRequests :
        /\ store.idCounter + req.Destinations <= MaxIDs
        /\ IF id \notin DOMAIN store.checkouts
           THEN store' = [store EXCEPT !.err = "checkout not found"]
           ELSE LET checkout == store.checkouts[id]
                    updated == [checkout EXCEPT
                                   !.Buyer = IF req.Buyer.nil THEN @ ELSE req.Buyer,
                                   !.SelectedInstrumentID =
                                       IF req.SelectedInstrumentID # ""
                                       THEN req.SelectedInstrumentID ELSE @]
                    status == StatusAfterUpdate(checkout, updated)
                IN  store' = [store EXCEPT
                                 !.idCounter = @ + req.Destinations,
                                 !.err = "nil",
                                 !.checkouts[id] = [updated EXCEPT !.Status = status],
                                 !.closed = Noted(@, id, status)]
        /\ UNCHANGED <<handler, client, negVars, verVars>>

\* handleCompleteCheckout(r, id): the order id is generated before the lock
\* is taken and before any test.
handleCompleteCheckout ==
    \E id \in RequestIDs :
        LET orderID == generateID("ord", store.idCounter)
        IN  /\ store.idCounter + 1 <= MaxIDs
            /\ store' =
                   IF id \notin DOMAIN store.checkouts
                   THEN [store EXCEPT !.idCounter = @ + 1, !.err = "checkout not found"]
                   ELSE IF store.checkouts[id].Status # "ready_for_complete"
                   THEN [store EXCEPT !.idCounter = @ + 1,
                                      !.err = "checkout is not ready for completion"]
                   ELSE [store EXCEPT
                            !.idCounter = @ + 1,
                            !.err = "nil",
                            !.orders = MapPut(@, orderID,
                                              [ID |-> orderID, CheckoutID |-> id,
                                               statusBefore |-> store.checkouts[id].Status]),
                            !.checkouts[id] = [@ EXCEPT !.Status = "completed",
                                                        !.Order = orderID],
                            !.closed = Noted(@, id, "completed")]
            /\ UNCHANGED <<handler, client, negVars, verVars>>

\* handleCancelCheckout(r, id)
handleCancelCheckout ==
    \E id \in RequestIDs :
        /\ store' =
               IF id \notin DOMAIN store.checkouts
               THEN [store EXCEPT !.err = "checkout not found"]
               ELSE IF store.checkouts[id].Status = "completed"
               THEN [store EXCEPT !.err = "cannot cancel completed checkout"]
               ELSE [store EXCEPT !.err = "nil",
                                  !.checkouts[id] = [@ EXCEPT !.Status = "canceled"],
                                  !.closed = Noted(@, id, "canceled")]
        /\ UNCHANGED <<handler, client, negVars, verVars>>

ShopNext ==
    \/ handleCreateCheckout
    \/ handleUpdateCheckout
    \/ handleCompleteCheckout
    \/ handleCancelCheckout

ShopSpec == Init /\ [][ShopNext]_vars

\* C30: a checkout that was once completed or canceled still has that
\* status; no two orders are for the same checkout id; and every order was
\* created for a checkout whose status was ready_for_complete.
C30_TerminalStatusesOneOrder ==
    /\ \A id \in DOMAIN store.closed : store.checkouts[id].Status = store.closed[id]
    /\ \A o1, o2 \in DOMAIN store.orders :
           store.orders[o1].CheckoutID = store.orders[o2].CheckoutID => o1 = o2
    /\ \A o \in DOMAIN store.orders :
           store.orders[o].statusBefore = "ready_for_complete"

====
